---- MODULE Spec2Model ----
(***************************************************************************)
(* Model of the authoritative simulation core of tron-arena:               *)
(*   src/src/game.js     trails, spatial grid, motion, collisions, rounds, *)
(*                       state codec (serializeGameState / applyGameState) *)
(*   src/src/network.js  host lifecycle (start, countdown, physics tick,   *)
(*                       join / leave, broadcasts)                         *)
(*                                                                         *)
(* Lengths are integers counted in model units of 1/PosDen arena unit,     *)
(* headings in units of 1/AngDen radian, so that the fixed-point wire      *)
(* encoding (one decimal / three decimals) is coarser than the values it   *)
(* encodes.  The arena, the trail capacity, the grace windows and the      *)
(* number of lives are scaled down; every scaled value is a definition.    *)
(* Headings are multiples of TURN_SPEED and a quarter turn is one          *)
(* TURN_SPEED step, so cos / sin take the values -1, 0, 1.  Time is        *)
(* counted in physics periods (PHYSICS_INTERVAL).                          *)
(***************************************************************************)
EXTENDS Integers, Sequences, FiniteSets, TLC

\* ------------------------------------------------------------------------
\* Constants of game.js (scaled)
\* ------------------------------------------------------------------------
CANVAS_W == 10
CANVAS_H == 6
BASE_SPEED == 2
SPEED_INCREMENT == 1
SPEED_INTERVAL == 6
MAX_SPEED == 5
TURN_SPEED == 3142
TRAIL_MAX == 5
COLLISION_RADIUS == 2
COLLISION_RADIUS_SQ == COLLISION_RADIUS * COLLISION_RADIUS
COLLISION_SKIP_OWN == 2
MAX_LIVES == 2
GRID_CELL_SIZE == 2 * COLLISION_RADIUS
POS_SCALE == 10
ANGLE_SCALE == 1000
PosDen == 2 * POS_SCALE
AngDen == 2 * ANGLE_SCALE

\* Constants of network.js
BROADCAST_EVERY == 4
COUNTDOWN_FROM == 3

\* ------------------------------------------------------------------------
\* Bounds of the model
\* ------------------------------------------------------------------------
MaxPushes == 6
MaxRounds == 1
MaxTicks == 6
MaxStarts == 2
MaxInputs == 1
MaxSteers == 2
MaxSteeredTicks == 7
MaxEpoch == 3
MaxClock == 30

\* null for an id (matchWinner) and for a timestamp (roundStartTime)
NULL == "null"
NO_TIME == 0

\* F applied to the value of e: e is evaluated once, as a statement that
\* assigns a local is executed once
With(e, F(_)) == CHOOSE r \in {F(v) : v \in {e}} : TRUE

Min(a, b) == IF a < b THEN a ELSE b
Max(a, b) == IF a > b THEN a ELSE b

\* JavaScript's (v | 0) on a quotient a / b with b > 0: truncation toward zero.
TruncDiv(a, b) == IF a >= 0 THEN a \div b ELSE -((-a) \div b)

\* Math.ceil(a / b) for a >= 0, b > 0
CeilDiv(a, b) == (a + b - 1) \div b

\* A value stored into a Uint8Array element
Uint8(v) == v % 256

GRID_COLS == CeilDiv(CANVAS_W, GRID_CELL_SIZE)
GRID_ROWS == CeilDiv(CANVAS_H, GRID_CELL_SIZE)
GRID_TOTAL == GRID_COLS * GRID_ROWS
MAX_GRID_ENTRIES == 8 * TRAIL_MAX
TRAIL_BUFFER_SIZE == 2 * TRAIL_MAX

\* Spawn slots: position and heading (0 east, one TURN_SPEED south, two west,
\* three north; y grows downward as on the canvas)
spawnConfigs ==
  << [x |-> 1, y |-> 1, angle |-> 0],
     [x |-> 9, y |-> 5, angle |-> 2 * TURN_SPEED],
     [x |-> 9, y |-> 1, angle |-> TURN_SPEED],
     [x |-> 1, y |-> 5, angle |-> 3 * TURN_SPEED] >>

Slots == 0 .. (TRAIL_MAX - 1)

VARIABLES
  players,          \* host roster: id -> competitor record   (Network.players)
  playerOrder,      \* property order of the roster object: sequence of ids
  spatialBitfield,  \* <<>> while null, else one byte per cell (cell c at c + 1)
  gridPoints,       \* the point pool, gridPointCount = Len(gridPoints)
  gridDirty,
  staticSent,       \* staticSentTo.has('_broadcast')
  roundActive, countdown, roundStartTime, matchWinner, gameStarted,
  tickCounter,      \* fields of the host's Network object
  physicsInterval,  \* TRUE while the physics setInterval is active
  countdownTimers,  \* number of active countdown setIntervals (runCountdown)
  restartTimeouts,  \* number of pending auto-restart setTimeouts
  connections,      \* ids of the participants with a channel to the host
  now,              \* the host's clock (Date.now()), in physics periods
  outbox,           \* what the last handler sent or emitted, in order
  mirror,           \* a remote participant's players map: id -> record
  spatialGrid,      \* list-per-cell variant (part_000): <<>> while null, else per
                    \* cell the entries pushed, run on the same roster and moves
  listGridDirty,    \* gridDirty of the list-per-cell variant
  observed,         \* whether the participants' pages are part of the system
                    \* under observation; fixed from the start
  mirrors,          \* participant -> its players map (network.players of its
                    \* page), for the connected participants if observed
  serialNo,         \* serializeGameState calls since the last resetStaticSent
                    \* (2 for two or more)
  lastSpeed,        \* <<>> or the last call of getGameSpeed: its argument, the
                    \* clock it read and the value it returned
  walk,             \* codec level: which sample sequence the caller pushes
  \* history variables (read by no action's program state)
  pushed,           \* id -> samples pushed since the last trail reset
  sentMark,         \* id -> Len(pushed[id]) at the last serialization
  overrun,          \* more than TRAIL_MAX pushes lay between two serializations
  round,            \* number of startRound calls
  roundLives,       \* id -> lives at the last startRound
  joinedSince,      \* the ids whose join was processed since the last
                    \* broadcastState
  lobbyJoined,      \* the connected participants whose join was processed
                    \* before the first match started
  starts,           \* number of accepted start-match requests
  arrivals,         \* number of participants that have connected so far
  inputs,           \* number of turn intents that changed a competitor so far
  matchOver,        \* the last round ended the match and no match started since
  lastTick,         \* set by a physics tick: what the tick did
  lastSer,          \* set by a serialization step: what was pending, what was emitted
  lastApplied,      \* set by a serialization step: the state the mirror applied
  mirrorFresh       \* the mirror's trails were empty when the round started

gameVars == <<players, playerOrder, spatialBitfield, gridPoints, gridDirty, staticSent>>
netVars == <<roundActive, countdown, roundStartTime, matchWinner, gameStarted, tickCounter>>
timerVars == <<physicsInterval, countdownTimers, restartTimeouts, connections, now, outbox>>
linkVars == <<mirror>>
codecHist == <<walk, pushed, sentMark, overrun, lastSer, lastApplied, mirrorFresh>>
hostHist == <<roundLives, joinedSince, lobbyJoined, starts, arrivals, inputs, matchOver, lastTick>>
listVars == <<spatialGrid, listGridDirty>>
speedVars == <<lastSpeed>>
peerVars == <<observed, mirrors, serialNo>>
vars == <<gameVars, netVars, timerVars, linkVars, codecHist, hostHist, listVars, speedVars,
          peerVars,
          round>>

\* ------------------------------------------------------------------------
\* Spatial grid (bitfield plus bounded point pool)
\* ------------------------------------------------------------------------
GetCellIndex(x, y) ==
  LET col == TruncDiv(x, GRID_CELL_SIZE)
      row == TruncDiv(y, GRID_CELL_SIZE)
  IN IF col < 0 \/ col >= GRID_COLS \/ row < 0 \/ row >= GRID_ROWS
       THEN -1
       ELSE row * GRID_COLS + col

CreateBitfield == [c \in 1 .. GRID_TOTAL |-> 0]

\* g is the grid: [bf |-> spatialBitfield, pts |-> gridPoints, dirty |-> gridDirty]
ClearBitfield(g) ==
  [g EXCEPT !.bf = IF g.bf = <<>> THEN <<>> ELSE CreateBitfield, !.pts = <<>>]

\* The pool entry keeps playerId (a parameter the code passes and does not
\* store) as owner; no operation of the program reads it.
GridInsertPoint(g, playerId, trailPosition, x, y, playerIndex) ==
  LET cellIdx == GetCellIndex(x, y)
      tag == IF playerIndex = 0 THEN 1 ELSE playerIndex
  IN IF g.bf = <<>> \/ cellIdx < 0
       THEN g
       ELSE [g EXCEPT
               !.bf = [@ EXCEPT ![cellIdx + 1] = Uint8(tag)],
               !.pts = IF Len(@) < MAX_GRID_ENTRIES
                         THEN Append(@, [x |-> x, y |-> y, player |-> Uint8(tag),
                                         trailPos |-> trailPosition,
                                         owner |-> playerId])
                         ELSE @]

\* ------------------------------------------------------------------------
\* Competitors and trails
\* ------------------------------------------------------------------------
CreatePlayer(id, index) ==
  [id |-> id, x |-> CANVAS_W \div 2, y |-> CANVAS_H \div 2, angle |-> 0,
   turning |-> 0,
   trailX |-> [s \in Slots |-> 0], trailY |-> [s \in Slots |-> 0],
   trailLen |-> 0, trailStart |-> 0, trailSentCount |-> 0,
   alive |-> TRUE, score |-> 0, lives |-> MAX_LIVES, spawnIndex |-> index]

TrailGetIndex(p, i) == (p.trailStart + i) % TRAIL_MAX

\* Faulty variants of trailPush: the wrap branch leaves trailSentCount alone /
\* leaves trailStart alone
TrailPushKeepSent(p, g, x, y) ==
  IF p.trailLen < TRAIL_MAX
    THEN LET idx == (p.trailStart + p.trailLen) % TRAIL_MAX
         IN [p |-> [p EXCEPT !.trailX[idx] = x, !.trailY[idx] = y,
                             !.trailLen = @ + 1],
             g |-> GridInsertPoint(g, p.id, p.trailLen, x, y, p.spawnIndex + 1)]
    ELSE [p |-> [p EXCEPT !.trailX[p.trailStart] = x, !.trailY[p.trailStart] = y,
                          !.trailStart = (@ + 1) % TRAIL_MAX],
          g |-> [g EXCEPT !.dirty = TRUE]]

TrailPushKeepStart(p, g, x, y) ==
  IF p.trailLen < TRAIL_MAX
    THEN LET idx == (p.trailStart + p.trailLen) % TRAIL_MAX
         IN [p |-> [p EXCEPT !.trailX[idx] = x, !.trailY[idx] = y,
                             !.trailLen = @ + 1],
             g |-> GridInsertPoint(g, p.id, p.trailLen, x, y, p.spawnIndex + 1)]
    ELSE [p |-> [p EXCEPT !.trailX[p.trailStart] = x, !.trailY[p.trailStart] = y,
                          !.trailSentCount = IF @ > 0 THEN @ - 1 ELSE @],
          g |-> [g EXCEPT !.dirty = TRUE]]

\* Faulty variant of trailPush: the wrap branch does not mark the grid dirty
TrailPushNoDirty(p, g, x, y) ==
  IF p.trailLen < TRAIL_MAX
    THEN LET idx == (p.trailStart + p.trailLen) % TRAIL_MAX
         IN [p |-> [p EXCEPT !.trailX[idx] = x, !.trailY[idx] = y,
                             !.trailLen = @ + 1],
             g |-> GridInsertPoint(g, p.id, p.trailLen, x, y, p.spawnIndex + 1)]
    ELSE [p |-> [p EXCEPT !.trailX[p.trailStart] = x, !.trailY[p.trailStart] = y,
                          !.trailStart = (@ + 1) % TRAIL_MAX,
                          !.trailSentCount = IF @ > 0 THEN @ - 1 ELSE @],
          g |-> g]

\* trailPush(p, x, y): the competitor and the grid after the push
TrailPush(p, g, x, y) ==
  IF p.trailLen < TRAIL_MAX
    THEN LET idx == (p.trailStart + p.trailLen) % TRAIL_MAX
         IN [p |-> [p EXCEPT !.trailX[idx] = x, !.trailY[idx] = y,
                             !.trailLen = @ + 1],
             g |-> GridInsertPoint(g, p.id, p.trailLen, x, y, p.spawnIndex + 1)]
    ELSE [p |-> [p EXCEPT !.trailX[p.trailStart] = x, !.trailY[p.trailStart] = y,
                          !.trailStart = (@ + 1) % TRAIL_MAX,
                          !.trailSentCount = IF @ > 0 THEN @ - 1 ELSE @],
          g |-> [g EXCEPT !.dirty = TRUE]]

\* The logical samples of a trail, oldest first
TrailSamples(p) ==
  [i \in 1 .. p.trailLen |->
     <<p.trailX[TrailGetIndex(p, i - 1)], p.trailY[TrailGetIndex(p, i - 1)]>>]

\* ------------------------------------------------------------------------
\* startRound(players)
\* ------------------------------------------------------------------------
\* Faulty variant of the slot counter: competitors without lives are counted
SpawnCounterAll(ps, order, k) == k - 1

\* The value of the slot counter i when the loop reaches position k of the roster
SpawnCounter(ps, order, k) ==
  Cardinality({j \in 1 .. (k - 1) : ps[order[j]].lives > 0})

\* Faulty variant of startRound: trailSentCount survives the reset
StartRoundPlayerKeepSent(p, i) ==
  IF p.lives <= 0
    THEN [p EXCEPT !.alive = FALSE, !.trailLen = 0, !.trailStart = 0]
    ELSE LET spawn == spawnConfigs[(i % Len(spawnConfigs)) + 1]
         IN [p EXCEPT !.x = spawn.x, !.y = spawn.y, !.angle = spawn.angle,
                      !.turning = 0, !.trailLen = 0, !.trailStart = 0,
                      !.alive = TRUE]

StartRoundPlayer(p, i) ==
  IF p.lives <= 0
    THEN [p EXCEPT !.alive = FALSE, !.trailLen = 0, !.trailStart = 0,
                   !.trailSentCount = 0]
    ELSE LET spawn == spawnConfigs[(i % Len(spawnConfigs)) + 1]
         IN [p EXCEPT !.x = spawn.x, !.y = spawn.y, !.angle = spawn.angle,
                      !.turning = 0, !.trailLen = 0, !.trailStart = 0,
                      !.trailSentCount = 0, !.alive = TRUE]

\* The roster and the grid after startRound
StartRound(ps, order, g) ==
  [ps |-> [id \in DOMAIN ps |->
             LET k == CHOOSE j \in 1 .. Len(order) : order[j] = id
             IN StartRoundPlayer(ps[id], SpawnCounter(ps, order, k))],
   g |-> [ClearBitfield(g) EXCEPT !.dirty = TRUE]]

\* ------------------------------------------------------------------------
\* State codec
\* ------------------------------------------------------------------------
\* (v * 10 + 0.5) | 0 for a length of v model units
EncodePos(v) == TruncDiv(2 * POS_SCALE * v + PosDen, 2 * PosDen)
\* (a * 1000 + 0.5) | 0 for a heading of a model units
EncodeAngle(a) == TruncDiv(2 * ANGLE_SCALE * a + AngDen, 2 * AngDen)
\* e / 10 and e / 1000, in model units
DecodePos(e) == (e * PosDen) \div POS_SCALE
DecodeAngle(e) == (e * AngDen) \div ANGLE_SCALE

\* A value stored into an Int16Array element
Int16(v) == ((v + 32768) % 65536) - 32768

\* Faulty variant of the delta loop: the slot is computed without trailStart
TrailDataNoStart(p) ==
  LET newCount == p.trailLen - p.trailSentCount
      dataLen == newCount * 2
      coord(k) ==
        LET i == (k - 1) \div 2
            idx == (p.trailSentCount + i) % TRAIL_MAX
            e == IF k % 2 = 1 THEN EncodePos(p.trailX[idx])
                              ELSE EncodePos(p.trailY[idx])
        IN IF dataLen <= TRAIL_BUFFER_SIZE THEN Int16(e) ELSE e
  IN IF newCount > 0 THEN [k \in 1 .. dataLen |-> coord(k)] ELSE <<>>

\* The flattened integer pairs of the samples at logical positions
\* trailSentCount .. trailLen - 1
TrailData(p) ==
  LET newCount == p.trailLen - p.trailSentCount
      dataLen == newCount * 2
      coord(k) ==
        LET i == (k - 1) \div 2
            idx == (p.trailStart + p.trailSentCount + i) % TRAIL_MAX
            e == IF k % 2 = 1 THEN EncodePos(p.trailX[idx])
                              ELSE EncodePos(p.trailY[idx])
        IN IF dataLen <= TRAIL_BUFFER_SIZE THEN Int16(e) ELSE e
  IN IF newCount > 0 THEN [k \in 1 .. dataLen |-> coord(k)] ELSE <<>>

\* One competitor's entry of a state message; tr = <<>> stands for no tr field,
\* static = FALSE for no identity fields
SerializePlayer(p, sendStatic) ==
  [x |-> EncodePos(p.x), y |-> EncodePos(p.y), a |-> EncodeAngle(p.angle),
   tu |-> p.turning, tl |-> p.trailLen, ts |-> p.trailStart, tc |-> p.trailLen,
   al |-> p.alive, s |-> p.score, l |-> p.lives,
   tr |-> TrailData(p),
   static |-> sendStatic, id |-> p.id, si |-> p.spawnIndex]

\* Faulty variant of serializeGameState: identity fields in every message
SerializeGameStateAlwaysStatic(ps, sent, ra, cd, rst, mw) ==
  [state |-> [p |-> [id \in DOMAIN ps |-> SerializePlayer(ps[id], TRUE)],
              ra |-> ra, cd |-> cd, rst |-> rst, mw |-> mw],
   ps |-> [id \in DOMAIN ps |-> [ps[id] EXCEPT !.trailSentCount = ps[id].trailLen]]]

\* serializeGameState: the message, and the roster with the samples marked sent
SerializeGameState(ps, sent, ra, cd, rst, mw) ==
  [state |-> [p |-> [id \in DOMAIN ps |-> SerializePlayer(ps[id], ~sent)],
              ra |-> ra, cd |-> cd, rst |-> rst, mw |-> mw],
   ps |-> [id \in DOMAIN ps |-> [ps[id] EXCEPT !.trailSentCount = ps[id].trailLen]]]

\* The delta loop of applyGameState from point i (1-based) on
RECURSIVE ApplyTrail(_, _, _)
ApplyTrail(p, tr, i) ==
  IF i > Len(tr) \div 2
    THEN p
    ELSE LET idx == (p.trailStart + p.trailLen) % TRAIL_MAX
             q == [p EXCEPT !.trailX[idx] = DecodePos(tr[2 * i - 1]),
                            !.trailY[idx] = DecodePos(tr[2 * i])]
         IN With(IF q.trailLen + 1 > TRAIL_MAX
                   THEN [q EXCEPT !.trailStart = (@ + 1) % TRAIL_MAX,
                                  !.trailLen = TRAIL_MAX]
                   ELSE [q EXCEPT !.trailLen = @ + 1],
                 LAMBDA q1 : ApplyTrail(q1, tr, i + 1))

\* Faulty variant of the per-competitor part of applyGameState: a reported
\* trail length of 0 does not reset the trail
ApplyPlayerNoReset(m, id, pd) ==
  LET p0 == IF id \in DOMAIN m
              THEN m[id]
              ELSE CreatePlayer(id, IF pd.static THEN pd.si ELSE 0)
      p1 == IF Len(pd.tr) > 0
              THEN [ApplyTrail(p0, pd.tr, 1) EXCEPT !.trailSentCount = pd.tc]
              ELSE p0
  IN [p1 EXCEPT !.x = DecodePos(pd.x), !.y = DecodePos(pd.y),
                !.angle = DecodeAngle(pd.a), !.alive = pd.al, !.score = pd.s,
                !.lives = pd.l]

\* The per-competitor part of applyGameState
ApplyPlayer(m, id, pd) ==
  LET p0 == IF id \in DOMAIN m
              THEN m[id]
              ELSE CreatePlayer(id, IF pd.static THEN pd.si ELSE 0)
      p1 == IF Len(pd.tr) > 0
              THEN [ApplyTrail(p0, pd.tr, 1) EXCEPT !.trailSentCount = pd.tc]
              ELSE p0
      p2 == IF pd.tl = 0
              THEN [p1 EXCEPT !.trailLen = 0, !.trailStart = 0, !.trailSentCount = 0]
              ELSE p1
  IN [p2 EXCEPT !.x = DecodePos(pd.x), !.y = DecodePos(pd.y),
                !.angle = DecodeAngle(pd.a), !.alive = pd.al, !.score = pd.s,
                !.lives = pd.l]

\* applyGameState(players, state) on a mirror m
ApplyGameState(m, state) ==
  IF "p" \notin DOMAIN state
    THEN m
    ELSE [id \in (DOMAIN m) \cup (DOMAIN state.p) |->
            IF id \in DOMAIN state.p THEN ApplyPlayer(m, id, state.p[id]) ELSE m[id]]

\* ------------------------------------------------------------------------
\* Motion
\* ------------------------------------------------------------------------
\* Math.cos / Math.sin of a heading that is a multiple of TURN_SPEED
Cos(a) ==
  LET q == (a \div TURN_SPEED) % 4
  IN IF q = 0 THEN 1 ELSE IF q = 2 THEN -1 ELSE 0

Sin(a) ==
  LET q == (a \div TURN_SPEED) % 4
  IN IF q = 1 THEN 1 ELSE IF q = 3 THEN -1 ELSE 0

GetGameSpeedNoClamp(rst, t) ==
  IF rst = NO_TIME
    THEN BASE_SPEED
    ELSE BASE_SPEED + TruncDiv(t - rst, SPEED_INTERVAL) * SPEED_INCREMENT

\* getGameSpeed(roundStartTime) read at clock value t
GetGameSpeed(rst, t) ==
  IF rst = NO_TIME
    THEN BASE_SPEED
    ELSE LET boosts == TruncDiv(t - rst, SPEED_INTERVAL)
         IN Min(BASE_SPEED + boosts * SPEED_INCREMENT, MAX_SPEED)

OutOfArena(x, y) == x < 0 \/ x > CANVAS_W \/ y < 0 \/ y > CANVAS_H

\* Faulty variant of movePlayer: leaving the arena is not detected
MovePlayerNoWall(p, g, speed) ==
  LET a2 == p.angle + p.turning * TURN_SPEED
      x2 == p.x + Cos(a2) * speed
      y2 == p.y + Sin(a2) * speed
  IN With(TrailPush([p EXCEPT !.angle = a2, !.x = x2, !.y = y2], g, x2, y2),
          LAMBDA r : [p |-> r.p, g |-> r.g])

\* movePlayer(p, speed): the competitor and the grid after the move
MovePlayer(p, g, speed) ==
  LET a2 == p.angle + p.turning * TURN_SPEED
      x2 == p.x + Cos(a2) * speed
      y2 == p.y + Sin(a2) * speed
  IN With(TrailPush([p EXCEPT !.angle = a2, !.x = x2, !.y = y2], g, x2, y2),
          LAMBDA r :
            [p |-> IF OutOfArena(x2, y2) THEN [r.p EXCEPT !.alive = FALSE] ELSE r.p,
             g |-> r.g])

\* physicsTick's loop "move all alive players", in roster order from position k
RECURSIVE MoveAll(_, _, _, _, _)
MoveAll(ps, order, g, speed, k) ==
  IF k > Len(order)
    THEN [ps |-> ps, g |-> g]
    ELSE LET id == order[k]
         IN IF ps[id].alive
              THEN With(MovePlayer(ps[id], g, speed),
                        LAMBDA r : MoveAll([ps EXCEPT ![id] = r.p], order, r.g,
                                           speed, k + 1))
              ELSE MoveAll(ps, order, g, speed, k + 1)

\* ------------------------------------------------------------------------
\* Collision detection (bitfield plus bounded point pool)
\* ------------------------------------------------------------------------
\* One sample recorded by rebuildSpatialGrid under the roster position playerIdx
RebuildInsert(g, playerId, i, x, y, playerIdx) ==
  LET cellIdx == GetCellIndex(x, y)
  IN IF cellIdx < 0
       THEN g
       ELSE [g EXCEPT
               !.bf = [@ EXCEPT ![cellIdx + 1] = Uint8(playerIdx)],
               !.pts = IF Len(@) < MAX_GRID_ENTRIES
                         THEN Append(@, [x |-> x, y |-> y, player |-> Uint8(playerIdx),
                                         trailPos |-> i, owner |-> playerId])
                         ELSE @]

\* The loops of rebuildSpatialGrid from roster position k, logical sample i on
RECURSIVE RebuildFrom(_, _, _, _, _)
RebuildFrom(ps, order, g, k, i) ==
  IF k > Len(order)
    THEN g
    ELSE LET p == ps[order[k]]
             idx == (p.trailStart + i) % TRAIL_MAX
         IN IF ~p.alive \/ i >= p.trailLen
              THEN RebuildFrom(ps, order, g, k + 1, 0)
              ELSE RebuildFrom(ps, order,
                               RebuildInsert(g, p.id, i, p.trailX[idx], p.trailY[idx], k),
                               k, i + 1)

RebuildSpatialGrid(ps, order, g) ==
  LET g0 == ClearBitfield([g EXCEPT !.bf = IF @ = <<>> THEN CreateBitfield ELSE @])
  IN [RebuildFrom(ps, order, g0, 1, 0) EXCEPT !.dirty = FALSE]

\* The literal 598 of checkCollisions: samples of another tag at or beyond this
\* recorded position are skipped
COLLISION_SKIP_OTHER == TRAIL_MAX - 2

\* Faulty variant: the own-trail window is not applied
EligibleNoWindow(p, myIndex, pt) ==
  IF pt.player = myIndex
    THEN TRUE
    ELSE ~(pt.trailPos >= COLLISION_SKIP_OTHER)

\* A pool entry that is not skipped as recent
Eligible(p, myIndex, pt) ==
  IF pt.player = myIndex
    THEN ~(pt.trailPos >= p.trailLen - COLLISION_SKIP_OWN)
    ELSE ~(pt.trailPos >= COLLISION_SKIP_OTHER)

\* The AABB reject and the squared-distance test
Touches(p, pt) ==
  LET dx == p.x - pt.x
      dy == p.y - pt.y
  IN /\ ~(dx > COLLISION_RADIUS \/ dx < -COLLISION_RADIUS
            \/ dy > COLLISION_RADIUS \/ dy < -COLLISION_RADIUS)
     /\ dx * dx + dy * dy < COLLISION_RADIUS_SQ

\* The n-th cell (n = 0 .. 8, rows first) of the 3 x 3 neighbourhood of p, or -1
Neighbour(p, n) ==
  LET col == TruncDiv(p.x, GRID_CELL_SIZE)
      row == TruncDiv(p.y, GRID_CELL_SIZE)
      nr == row + (n \div 3) - 1
      nc == col + (n % 3) - 1
  IN IF nr < 0 \/ nr >= GRID_ROWS \/ nc < 0 \/ nc >= GRID_COLS
       THEN -1
       ELSE nr * GRID_COLS + nc

\* The pool entries of cell cellIdx that hit p
CellHits(p, myIndex, g, cellIdx) ==
  {j \in 1 .. Len(g.pts) :
     /\ GetCellIndex(g.pts[j].x, g.pts[j].y) = cellIdx
     /\ Eligible(p, myIndex, g.pts[j])
     /\ Touches(p, g.pts[j])}

SetMin(S) == CHOOSE v \in S : \A w \in S : v <= w

\* The pool entry at which the scan for p stops (<<entry>>), or <<>> for no hit
HitPoint(p, myIndex, g) ==
  With({n \in 0 .. 8 :
          /\ Neighbour(p, n) >= 0
          /\ g.bf[Neighbour(p, n) + 1] # 0
          /\ CellHits(p, myIndex, g, Neighbour(p, n)) # {}},
       LAMBDA cells :
         IF cells = {}
           THEN <<>>
           ELSE With(CellHits(p, myIndex, g, Neighbour(p, SetMin(cells))),
                     LAMBDA found : << g.pts[SetMin(found)] >>))

\* The 1-based position of id in the roster (playerIndexMap)
RosterIndex(order, id) == CHOOSE k \in 1 .. Len(order) : order[k] = id

\* checkCollisions(players): the roster and the grid afterwards, the
\* competitors examined (aliveList) and the entry that stopped each scan
CheckCollisions(ps, order, g) ==
  With(IF g.dirty \/ g.bf = <<>> THEN RebuildSpatialGrid(ps, order, g) ELSE g,
       LAMBDA g1 :
  With({id \in DOMAIN ps : ps[id].alive},
       LAMBDA aliveList :
  With([id \in aliveList |-> HitPoint(ps[id], RosterIndex(order, id), g1)],
       LAMBDA hits :
         [ps |-> [id \in DOMAIN ps |->
                    IF id \in aliveList /\ hits[id] # <<>>
                      THEN [ps[id] EXCEPT !.alive = FALSE]
                      ELSE ps[id]],
          g |-> g1, examined |-> aliveList, hits |-> hits])))

\* ------------------------------------------------------------------------
\* Collision detection, list-per-cell variant (src/unnamed/part_000)
\* lg is its grid: [cells |-> spatialGrid, dirty |-> gridDirty]; an entry of a
\* cell is the triple pushed: [id, bufIdx, trailPos]
\* ------------------------------------------------------------------------
ListCreateGrid == [c \in 1 .. GRID_TOTAL |-> <<>>]

ListClearGrid(lg) ==
  [lg EXCEPT !.cells = IF @ = <<>> THEN <<>> ELSE ListCreateGrid]

ListGridInsertPoint(lg, playerId, bufferIdx, trailPosition, x, y) ==
  LET cellIdx == GetCellIndex(x, y)
  IN IF lg.cells = <<>> \/ cellIdx < 0
       THEN lg
       ELSE [lg EXCEPT !.cells[cellIdx + 1] =
                         Append(@, [id |-> playerId, bufIdx |-> bufferIdx,
                                    trailPos |-> trailPosition])]

\* What trailPush(p, x, y) of the variant does to its grid
ListTrailPush(p, lg, x, y) ==
  IF p.trailLen < TRAIL_MAX
    THEN ListGridInsertPoint(lg, p.id, (p.trailStart + p.trailLen) % TRAIL_MAX,
                             p.trailLen, x, y)
    ELSE [lg EXCEPT !.dirty = TRUE]

\* The pushes of one tick in roster order from position k on: ps is the roster
\* before the moves, moved the roster after them
RECURSIVE ListMoveAll(_, _, _, _, _)
ListMoveAll(ps, moved, order, lg, k) ==
  IF k > Len(order)
    THEN lg
    ELSE With(IF ps[order[k]].alive
                THEN ListTrailPush(ps[order[k]], lg,
                                   moved[order[k]].x, moved[order[k]].y)
                ELSE lg,
              LAMBDA lg1 : ListMoveAll(ps, moved, order, lg1, k + 1))

\* The loops of the variant's rebuildSpatialGrid from roster position k, sample i
RECURSIVE ListRebuildFrom(_, _, _, _, _)
ListRebuildFrom(ps, order, lg, k, i) ==
  IF k > Len(order)
    THEN lg
    ELSE LET p == ps[order[k]]
             idx == (p.trailStart + i) % TRAIL_MAX
             cellIdx == GetCellIndex(p.trailX[idx], p.trailY[idx])
         IN IF ~p.alive \/ i >= p.trailLen
              THEN ListRebuildFrom(ps, order, lg, k + 1, 0)
              ELSE With(IF cellIdx >= 0
                          THEN [lg EXCEPT !.cells[cellIdx + 1] =
                                            Append(@, [id |-> p.id, bufIdx |-> idx,
                                                       trailPos |-> i])]
                          ELSE lg,
                        LAMBDA lg1 : ListRebuildFrom(ps, order, lg1, k, i + 1))

ListRebuildSpatialGrid(ps, order, lg) ==
  With(ListClearGrid([lg EXCEPT !.cells = IF @ = <<>> THEN ListCreateGrid ELSE @]),
       LAMBDA lg1 :
         [ListRebuildFrom(ps, order, lg1, 1, 0) EXCEPT !.dirty = FALSE])

\* An entry of a cell that is not skipped, in the roster ps as the loop has
\* left it so far
ListEligible(p, ps, entry) ==
  IF entry.id = p.id
    THEN ~(entry.trailPos >= p.trailLen - COLLISION_SKIP_OWN)
    ELSE /\ entry.id \in DOMAIN ps
         /\ ps[entry.id].alive
         /\ ~(entry.trailPos >= ps[entry.id].trailLen - 2)

\* hit for competitor p: some entry of the 3 x 3 neighbourhood is not skipped
\* and lies within the radius
ListHit(p, ps, lg) ==
  \E n \in 0 .. 8 :
    /\ Neighbour(p, n) >= 0
    /\ \E j \in 1 .. Len(lg.cells[Neighbour(p, n) + 1]) :
         LET entry == lg.cells[Neighbour(p, n) + 1][j]
         IN /\ ListEligible(p, ps, entry)
            /\ entry.id \in DOMAIN ps
            /\ Touches(p, [x |-> ps[entry.id].trailX[entry.bufIdx],
                           y |-> ps[entry.id].trailY[entry.bufIdx]])

\* The loop over aliveList from position k of the roster on; examined is
\* aliveList, built before the loop
RECURSIVE ListCheckFrom(_, _, _, _, _)
ListCheckFrom(ps, order, lg, examined, k) ==
  IF k > Len(order)
    THEN ps
    ELSE With(IF order[k] \in examined /\ ListHit(ps[order[k]], ps, lg)
                THEN [ps EXCEPT ![order[k]].alive = FALSE]
                ELSE ps,
              LAMBDA ps1 : ListCheckFrom(ps1, order, lg, examined, k + 1))

\* checkCollisions(players) of the variant: its grid afterwards and the
\* competitors it marks not alive
ListCheckCollisions(ps, order, lg) ==
  With(IF lg.dirty \/ lg.cells = <<>> THEN ListRebuildSpatialGrid(ps, order, lg) ELSE lg,
       LAMBDA lg1 :
  With({id \in DOMAIN ps : ps[id].alive},
       LAMBDA aliveList :
  With(ListCheckFrom(ps, order, lg1, aliveList, 1),
       LAMBDA after :
         [lg |-> lg1, dead |-> {id \in aliveList : ~after[id].alive}])))

\* What startRound of the variant does to its grid
ListStartRound(lg) == [ListClearGrid(lg) EXCEPT !.dirty = TRUE]

\* ------------------------------------------------------------------------
\* The state after construction: a host that has created its room
\* (Network constructor, createRoom's open handler) and a fresh mirror
\* ------------------------------------------------------------------------
HOST == "h"
EmptyMap == [id \in {} |-> 0]
Grid == [bf |-> spatialBitfield, pts |-> gridPoints, dirty |-> gridDirty]

InitGame ==
  /\ players = [id \in {HOST} |-> CreatePlayer(HOST, 0)]
  /\ playerOrder = <<HOST>>
  /\ spatialBitfield = <<>>
  /\ gridPoints = <<>>
  /\ gridDirty = TRUE
  /\ staticSent = FALSE

InitNet ==
  /\ roundActive = FALSE
  /\ countdown = 0
  /\ roundStartTime = NO_TIME
  /\ matchWinner = NULL
  /\ gameStarted = FALSE
  /\ tickCounter = 0
  /\ physicsInterval = FALSE
  /\ countdownTimers = 0
  /\ restartTimeouts = 0
  /\ connections = {}
  /\ now = 1
  /\ outbox = <<>>

InitLink ==
  /\ mirror = EmptyMap

InitList ==
  /\ spatialGrid = <<>>
  /\ listGridDirty = TRUE
  /\ lastSpeed = <<>>
  /\ mirrors = EmptyMap
  /\ serialNo = 0

InitHist ==
  /\ walk = "none"
  /\ pushed = [id \in DOMAIN players |-> <<>>]
  /\ sentMark = [id \in DOMAIN players |-> 0]
  /\ overrun = FALSE
  /\ round = 0
  /\ lastSer = <<>>
  /\ lastApplied = <<>>
  /\ mirrorFresh = TRUE
  /\ roundLives = [id \in DOMAIN players |-> players[id].lives]
  /\ joinedSince = {}
  /\ lobbyJoined = {}
  /\ starts = 0
  /\ arrivals = 0
  /\ inputs = 0
  /\ matchOver = FALSE
  /\ lastTick = <<>>

Init == InitGame /\ InitNet /\ InitLink /\ InitList /\ InitHist /\ observed = FALSE

\* ------------------------------------------------------------------------
\* The host (network.js): handlers as functions of the host's state
\* ------------------------------------------------------------------------
\* The host's state as one record; out collects what the running handler sends
Host ==
  [players |-> players, order |-> playerOrder, g |-> Grid,
   staticSent |-> staticSent, roundActive |-> roundActive,
   countdown |-> countdown, roundStartTime |-> roundStartTime,
   matchWinner |-> matchWinner, gameStarted |-> gameStarted,
   tickCounter |-> tickCounter, physicsInterval |-> physicsInterval,
   countdownTimers |-> countdownTimers, restartTimeouts |-> restartTimeouts,
   connections |-> connections, out |-> <<>>,
   lg |-> [cells |-> spatialGrid, dirty |-> listGridDirty],
   observed |-> observed, mirrors |-> mirrors, serialNo |-> serialNo,
   joinedSince |-> joinedSince, lobbyJoined |-> lobbyJoined,
   round |-> round, roundLives |-> roundLives, starts |-> starts,
   matchOver |-> matchOver]

\* The host's state after a handler returned h
Commit(h) ==
  \E v \in {h} :
    /\ players' = v.players
    /\ playerOrder' = v.order
    /\ spatialBitfield' = v.g.bf
    /\ gridPoints' = v.g.pts
    /\ gridDirty' = v.g.dirty
    /\ staticSent' = v.staticSent
    /\ roundActive' = v.roundActive
    /\ countdown' = v.countdown
    /\ roundStartTime' = v.roundStartTime
    /\ matchWinner' = v.matchWinner
    /\ gameStarted' = v.gameStarted
    /\ tickCounter' = v.tickCounter
    /\ physicsInterval' = v.physicsInterval
    /\ countdownTimers' = v.countdownTimers
    /\ restartTimeouts' = v.restartTimeouts
    /\ connections' = v.connections
    /\ outbox' = v.out
    /\ round' = v.round
    /\ roundLives' = v.roundLives
    /\ starts' = v.starts
    /\ matchOver' = v.matchOver
    /\ spatialGrid' = v.lg.cells
    /\ listGridDirty' = v.lg.dirty
    /\ observed' = v.observed
    /\ joinedSince' = v.joinedSince
    /\ lobbyJoined' = v.lobbyJoined
    /\ mirrors' = v.mirrors
    /\ serialNo' = v.serialNo

\* An entry of out: what is sent (or scheduled, or emitted), to whom, and the
\* host's fields at that point of the handler
Sent(h, type, to) ==
  [type |-> type, to |-> to, ra |-> h.roundActive, cd |-> h.countdown,
   mw |-> h.matchWinner, static |-> ~h.staticSent, timer |-> h.physicsInterval,
   timeouts |-> h.restartTimeouts,
   roster |-> DOMAIN h.players, ids |-> {}, nth |-> 0, tl |-> EmptyMap,
   afterJoin |-> {}]

ResetStaticSent(h) == [h EXCEPT !.staticSent = FALSE, !.serialNo = 0]

\* A participant's page receives a message carrying a state: handleMessage
\* applies it to its players map and emits stateUpdate, whose handler applies
\* it to the same map again
ReceiveState(m, state) ==
  With(ApplyGameState(m, state), LAMBDA m1 : ApplyGameState(m1, state))

\* The playerList case of handleMessage on a participant, from position k of the
\* list on
RECURSIVE ReceivePlayerList(_, _, _, _)
ReceivePlayerList(m, ps, order, k) ==
  IF k > Len(order)
    THEN m
    ELSE With([i \in (DOMAIN m) \cup {order[k]} |->
                 IF i # order[k]
                   THEN m[i]
                   ELSE [(IF i \in DOMAIN m
                            THEN m[i]
                            ELSE CreatePlayer(i, Cardinality(DOMAIN m)))
                           EXCEPT !.score = ps[i].score, !.lives = ps[i].lives,
                                  !.alive = ps[i].alive]],
              LAMBDA m1 : ReceivePlayerList(m1, ps, order, k + 1))

\* conn.send of a message carrying serializeGameState(...); the channel is
\* reliable and ordered, the recipients apply the message on arrival
SendState(h, type, to) ==
  With(h, LAMBDA v :
  With(SerializeGameState(v.players, v.staticSent, v.roundActive, v.countdown,
                          v.roundStartTime, v.matchWinner),
       LAMBDA r :
    [v EXCEPT !.players = r.ps,
              !.staticSent = TRUE,
              !.serialNo = Min(@ + 1, 2),
              !.mirrors = [c \in DOMAIN @ |->
                             IF c \in to THEN ReceiveState(@[c], r.state) ELSE @[c]],
              !.out = Append(@, [Sent(v, type, to) EXCEPT
                                   !.ids = {id \in DOMAIN r.state.p :
                                              r.state.p[id].static},
                                   !.nth = Min(v.serialNo + 1, 2),
                                   !.tl = [id \in DOMAIN r.state.p |->
                                             r.state.p[id].tl]])]))

\* Network.broadcastState; the entry notes whose join it follows
BroadcastState(h) ==
  With(h, LAMBDA v :
  With(SendState(v, "state", v.connections), LAMBDA w :
    [w EXCEPT !.joinedSince = {},
              !.out[Len(w.out)].afterJoin = v.joinedSince]))

BroadcastPlayerList(h) ==
  With(h, LAMBDA v :
    [v EXCEPT !.mirrors = [c \in DOMAIN @ |->
                             IF c \in v.connections
                               THEN ReceivePlayerList(@[c], v.players, v.order, 1)
                               ELSE @[c]],
              !.out = Append(@, Sent(v, "playerList", v.connections))])

StopPhysicsLoop(h) == [h EXCEPT !.physicsInterval = FALSE]

StartPhysicsLoop(h) ==
  [StopPhysicsLoop(h) EXCEPT !.tickCounter = 0, !.physicsInterval = TRUE]

RunCountdown(h) == [h EXCEPT !.countdownTimers = @ + 1]

\* Network.startRound at clock value t
NetworkStartRound(h, t) ==
  With(StartRound(h.players, h.order, h.g), LAMBDA r :
    StartPhysicsLoop(
      [h EXCEPT !.players = r.ps, !.g = r.g, !.roundActive = TRUE,
                !.roundStartTime = t, !.matchWinner = NULL,
                !.lg = ListStartRound(@),
                !.round = @ + 1,
                !.roundLives = [id \in DOMAIN r.ps |-> r.ps[id].lives]]))

\* Faulty variant of startGame: the countdown state is broadcast first
StartGameHandlerStateFirst(h) ==
  IF Cardinality(DOMAIN h.players) < 2
    THEN [h EXCEPT !.out = Append(@, Sent(h, "error", {HOST}))]
    ELSE With(BroadcastState(ResetStaticSent(
                [h EXCEPT !.gameStarted = TRUE, !.roundActive = FALSE,
                          !.countdown = COUNTDOWN_FROM, !.matchWinner = NULL,
                          !.players = [id \in DOMAIN h.players |->
                                         [h.players[id] EXCEPT !.lives = MAX_LIVES,
                                                               !.score = 0]],
                          !.starts = @ + 1, !.matchOver = FALSE])),
              LAMBDA h1 :
                RunCountdown(
                  [h1 EXCEPT !.out = Append(@, Sent(h1, "gameStart",
                                                    h1.connections))]))

\* Faulty variant of startGame: the number of competitors is not checked
StartGameHandlerNoCheck(h) ==
  With(ResetStaticSent(
         [h EXCEPT !.gameStarted = TRUE, !.roundActive = FALSE,
                   !.countdown = COUNTDOWN_FROM, !.matchWinner = NULL,
                   !.players = [id \in DOMAIN h.players |->
                                  [h.players[id] EXCEPT !.lives = MAX_LIVES,
                                                        !.score = 0]],
                   !.starts = @ + 1, !.matchOver = FALSE]),
       LAMBDA h1 :
         RunCountdown(BroadcastState(
           [h1 EXCEPT !.out = Append(@, Sent(h1, "gameStart", h1.connections))])))

\* Network.startGame
StartGameHandler(h) ==
  IF Cardinality(DOMAIN h.players) < 2
    THEN [h EXCEPT !.out = Append(@, Sent(h, "error", {HOST}))]
    ELSE With(ResetStaticSent(
                [h EXCEPT !.gameStarted = TRUE, !.roundActive = FALSE,
                          !.countdown = COUNTDOWN_FROM, !.matchWinner = NULL,
                          !.players = [id \in DOMAIN h.players |->
                                         [h.players[id] EXCEPT !.lives = MAX_LIVES,
                                                               !.score = 0]],
                          !.starts = @ + 1, !.matchOver = FALSE]),
              LAMBDA h1 :
                RunCountdown(BroadcastState(
                  [h1 EXCEPT !.out = Append(@, Sent(h1, "gameStart",
                                                    h1.connections))])))

\* Faulty variant of the countdown callback: the round starts, the interval stays
CountdownHandlerKeepInterval(h, t) ==
  With(BroadcastState(ResetStaticSent([h EXCEPT !.countdown = @ - 1])),
       LAMBDA h1 :
         IF h1.countdown <= 0
           THEN NetworkStartRound(h1, t)
           ELSE h1)

\* The setInterval callback of runCountdown, at clock value t
CountdownHandler(h, t) ==
  With(BroadcastState(ResetStaticSent([h EXCEPT !.countdown = @ - 1])),
       LAMBDA h1 :
         IF h1.countdown <= 0
           THEN NetworkStartRound([h1 EXCEPT !.countdownTimers = @ - 1], t)
           ELSE h1)

\* Faulty variant of the auto-restart callback: no countdown is started
AutoRestartHandlerNoCountdown(h) ==
  LET h1 == [h EXCEPT !.restartTimeouts = @ - 1]
  IN IF h1.gameStarted
       THEN BroadcastState(ResetStaticSent([h1 EXCEPT !.countdown = COUNTDOWN_FROM]))
       ELSE h1

\* The setTimeout callback scheduled at a round end
AutoRestartHandler(h) ==
  LET h1 == [h EXCEPT !.restartTimeouts = @ - 1]
  IN IF h1.gameStarted
       THEN RunCountdown(
              BroadcastState(ResetStaticSent([h1 EXCEPT !.countdown = COUNTDOWN_FROM])))
       ELSE h1

\* Faulty variant of the round end: the match end also schedules a restart
RoundEndAlwaysRestart(h) ==
  LET h1 == StopPhysicsLoop([h EXCEPT !.roundActive = FALSE])
      withLives == {k \in 1 .. Len(h.order) : h.players[h.order[k]].lives > 0}
      h2 == IF Cardinality(withLives) = 1
              THEN [h1 EXCEPT !.matchWinner = h.order[CHOOSE k \in withLives :
                                                        \A j \in withLives : j <= k]]
              ELSE h1
  IN With(BroadcastState(BroadcastPlayerList(ResetStaticSent(
            [h2 EXCEPT !.matchOver = Cardinality(withLives) <= 1]))),
          LAMBDA h3 :
            [h3 EXCEPT !.restartTimeouts = @ + 1,
                       !.out = Append(@, Sent(h3, "setTimeout", {HOST}))])

\* Faulty variant of the round end: the timer is stopped after the broadcasts
RoundEndLateStop(h) ==
  LET h1 == [h EXCEPT !.roundActive = FALSE]
      withLives == {k \in 1 .. Len(h.order) : h.players[h.order[k]].lives > 0}
  IN IF Cardinality(withLives) <= 1
       THEN LET h2 == IF Cardinality(withLives) = 1
                        THEN [h1 EXCEPT !.matchWinner =
                                h.order[CHOOSE k \in withLives :
                                          \A j \in withLives : j <= k]]
                        ELSE h1
            IN StopPhysicsLoop(BroadcastState(BroadcastPlayerList(ResetStaticSent(
                 [h2 EXCEPT !.matchOver = TRUE]))))
       ELSE With(BroadcastState(BroadcastPlayerList(ResetStaticSent(h1))),
                 LAMBDA h2 :
                   StopPhysicsLoop(
                     [h2 EXCEPT !.restartTimeouts = @ + 1,
                                !.out = Append(@, Sent(h2, "setTimeout", {HOST}))]))

\* physicsTick from "if (aliveCount <= 1)" to the end of that branch
RoundEnd(h) ==
  LET h1 == StopPhysicsLoop([h EXCEPT !.roundActive = FALSE])
      withLives == {k \in 1 .. Len(h.order) : h.players[h.order[k]].lives > 0}
  IN IF Cardinality(withLives) <= 1
       THEN LET h2 == IF Cardinality(withLives) = 1
                        THEN [h1 EXCEPT !.matchWinner =
                                h.order[CHOOSE k \in withLives :
                                          \A j \in withLives : j <= k]]
                        ELSE h1
            IN BroadcastState(BroadcastPlayerList(ResetStaticSent(
                 [h2 EXCEPT !.matchOver = TRUE])))
       ELSE With(BroadcastState(BroadcastPlayerList(ResetStaticSent(h1))),
                 LAMBDA h2 :
                   [h2 EXCEPT !.restartTimeouts = @ + 1,
                              !.out = Append(@, Sent(h2, "setTimeout", {HOST}))])

\* Faulty variant of the lives loop: every competitor that is not alive after
\* the tick loses a life
LoseLivesAllDead(ps, wasAlive) ==
  [id \in DOMAIN ps |->
     IF ~ps[id].alive
       THEN [ps[id] EXCEPT !.lives = Max(0, @ - 1)]
       ELSE ps[id]]

\* Faulty variant of the lives loop: nobody loses a life
LoseLivesNobody(ps, wasAlive) == ps

\* physicsTick's loop "decrement lives for players who just died this tick"
LoseLives(ps, wasAlive) ==
  [id \in DOMAIN ps |->
     IF wasAlive[id] /\ ~ps[id].alive
       THEN [ps[id] EXCEPT !.lives = Max(0, @ - 1)]
       ELSE ps[id]]

\* physicsTick at clock value t: the host afterwards (h) and what the tick did
PhysicsTickHandler(h, t) ==
  IF ~h.roundActive
    THEN [h |-> StopPhysicsLoop(h), active |-> FALSE, before |-> h.players,
          wallDead |-> {}, examined |-> {}, hits |-> EmptyMap, checked |-> EmptyMap,
          listDead |-> {}, aliveCount |-> 0, ended |-> FALSE]
    ELSE LET speed == GetGameSpeed(h.roundStartTime, t)
             wasAlive == [id \in DOMAIN h.players |-> h.players[id].alive]
         IN
         With(MoveAll(h.players, h.order, h.g, speed, 1), LAMBDA m :
         With(CheckCollisions(m.ps, h.order, m.g), LAMBDA c :
         With(With(ListMoveAll(h.players, m.ps, h.order, h.lg, 1),
                   LAMBDA lg1 : ListCheckCollisions(m.ps, h.order, lg1)),
              LAMBDA lc :
         With(LoseLives(c.ps, wasAlive), LAMBDA ps3 :
         With(Cardinality({id \in DOMAIN ps3 : ps3[id].alive}), LAMBDA aliveCount :
         With(IF aliveCount <= 1
                THEN RoundEnd([h EXCEPT !.players = ps3, !.g = c.g, !.lg = lc.lg])
                ELSE [h EXCEPT !.players = ps3, !.g = c.g, !.lg = lc.lg],
              LAMBDA h2 :
         With([h2 EXCEPT !.tickCounter = @ + 1], LAMBDA h3 :
           [h |-> IF h3.tickCounter >= BROADCAST_EVERY
                    THEN BroadcastState([h3 EXCEPT !.tickCounter = 0])
                    ELSE h3,
            active |-> TRUE, before |-> h.players,
            wallDead |-> {id \in DOMAIN m.ps : wasAlive[id] /\ ~m.ps[id].alive},
            examined |-> c.examined, hits |-> c.hits, checked |-> m.ps,
            listDead |-> lc.dead,
            aliveCount |-> aliveCount, ended |-> aliveCount <= 1])))))))

\* Faulty variant of the join handler: a late joiner is left alive
JoinHandlerAlive(h, id) ==
  LET playerCount == Cardinality(DOMAIN h.players)
      h1 == [h EXCEPT !.players = [i \in (DOMAIN @) \cup {id} |->
                                     IF i = id THEN CreatePlayer(id, playerCount)
                                               ELSE @[i]],
                      !.order = Append(@, id),
                      !.joinedSince = @ \cup {id},
                      !.lobbyJoined = IF h.gameStarted THEN @ ELSE @ \cup {id}]
  IN With(SendState(ResetStaticSent(h1), "init", {id}), LAMBDA h2 :
       SendState(ResetStaticSent(BroadcastPlayerList(h2)), "state", {id}))

\* The 'join' message of participant id
JoinHandler(h, id) ==
  LET playerCount == Cardinality(DOMAIN h.players)
      h1 == [h EXCEPT !.players = [i \in (DOMAIN @) \cup {id} |->
                                     IF i = id THEN CreatePlayer(id, playerCount)
                                               ELSE @[i]],
                      !.order = Append(@, id),
                      !.joinedSince = @ \cup {id},
                      !.lobbyJoined = IF h.gameStarted THEN @ ELSE @ \cup {id}]
  IN With(SendState(ResetStaticSent(h1), "init", {id}), LAMBDA h2 :
       SendState(
         ResetStaticSent(BroadcastPlayerList(
           IF h2.gameStarted THEN [h2 EXCEPT !.players[id].alive = FALSE] ELSE h2)),
         "state", {id}))

\* The 'close' event of participant id's channel
CloseHandler(h, id) ==
  [h EXCEPT !.connections = @ \ {id},
            !.mirrors = [c \in (DOMAIN @) \ {id} |-> @[c]],
            !.lobbyJoined = @ \ {id},
            !.players = [i \in (DOMAIN @) \ {id} |-> @[i]],
            !.order = SelectSeq(@, LAMBDA i : i # id)]

\* Faulty variant of applyPlayerUpdate: an unknown id gets an entry
ApplyPlayerUpdateCreates(h, id, turning) ==
  IF id \in DOMAIN h.players
    THEN [h EXCEPT !.players[id].turning = turning]
    ELSE [h EXCEPT !.players = [i \in (DOMAIN @) \cup {id} |->
                                 IF i = id
                                   THEN [CreatePlayer(id, Len(h.order)) EXCEPT
                                           !.turning = turning]
                                   ELSE @[i]],
                   !.order = Append(@, id)]

\* applyPlayerUpdate(players, update) / sendInput on the host
ApplyPlayerUpdate(h, id, turning) ==
  IF id \in DOMAIN h.players
    THEN [h EXCEPT !.players[id].turning = turning]
    ELSE h

\* The 'restart' message
RestartHandler(h) ==
  IF h.matchWinner # NULL THEN StartGameHandler(h) ELSE h

\* ------------------------------------------------------------------------
\* The exported operations of game.js, called in any order (codec level)
\* ------------------------------------------------------------------------
\* A host and one joiner, who joined before the match started (alive) or after
\* (not alive until the next round), a fresh mirror, and the walk the samples
\* follow
CODEC_IDS == <<HOST, "a">>
CodecIndex(id) == CHOOSE k \in 1 .. Len(CODEC_IDS) : CODEC_IDS[k] = id

InitCodec ==
  /\ \E late \in BOOLEAN :
       players = [id \in {CODEC_IDS[k] : k \in 1 .. Len(CODEC_IDS)} |->
                    [CreatePlayer(id, CodecIndex(id) - 1) EXCEPT
                       !.alive = (id = HOST \/ ~late)]]
  /\ playerOrder = CODEC_IDS
  /\ spatialBitfield = <<>>
  /\ gridPoints = <<>>
  /\ gridDirty = TRUE
  /\ staticSent = FALSE
  /\ InitNet /\ InitLink /\ InitList
  /\ observed = FALSE
  /\ walk \in {"up", "down"}
  /\ pushed = [id \in DOMAIN players |-> <<>>]
  /\ sentMark = [id \in DOMAIN players |-> 0]
  /\ overrun = FALSE
  /\ round = 0
  /\ lastSer = <<>>
  /\ lastApplied = <<>>
  /\ mirrorFresh = TRUE
  /\ roundLives = [id \in DOMAIN players |-> players[id].lives]
  /\ joinedSince = {}
  /\ lobbyJoined = {}
  /\ starts = 0
  /\ arrivals = 0
  /\ inputs = 0
  /\ matchOver = FALSE
  /\ lastTick = <<>>

\* The n-th sample pushed to competitor id's trail in round r, in model units.
\* The trail and the codec copy samples without inspecting them; the samples of
\* a walk are pairwise distinct, of both parities and both signs.
CodecSample(w, id, r, n) ==
  IF w = "up" THEN <<2 * n - 1 + 100 * CodecIndex(id), 3 + 10 * r>>
              ELSE <<-n - 100 * CodecIndex(id), -5 - 10 * r>>

Pending(id) == SubSeq(pushed[id], sentMark[id] + 1, Len(pushed[id]))

\* The pushes of one tick, in roster order from position k on: trailPush for
\* every competitor that is alive
RECURSIVE PushAll(_, _, _)
PushAll(ps, g, k) ==
  IF k > Len(playerOrder)
    THEN [ps |-> ps, g |-> g]
    ELSE LET id == playerOrder[k]
             pt == CodecSample(walk, id, round, Len(pushed[id]) + 1)
             r == TrailPush(ps[id], g, pt[1], pt[2])
         IN IF ps[id].alive
              THEN PushAll([ps EXCEPT ![id] = r.p], r.g, k + 1)
              ELSE PushAll(ps, g, k + 1)

Push ==
  /\ \A id \in DOMAIN players : Len(pushed[id]) < MaxPushes
  /\ LET r == PushAll(players, Grid, 1)
     IN /\ players' = r.ps
        /\ spatialBitfield' = r.g.bf
        /\ gridPoints' = r.g.pts
        /\ gridDirty' = r.g.dirty
  /\ pushed' = [id \in DOMAIN players |->
                  IF players[id].alive
                    THEN Append(pushed[id],
                                CodecSample(walk, id, round, Len(pushed[id]) + 1))
                    ELSE pushed[id]]
  /\ lastSer' = <<>>
  /\ lastApplied' = <<>>
  /\ UNCHANGED <<playerOrder, staticSent, netVars, timerVars, linkVars, hostHist, listVars, speedVars,
                 peerVars>>
  /\ UNCHANGED <<walk, sentMark, overrun, round, mirrorFresh>>

\* startRound(players)
RoundStart ==
  /\ round < MaxRounds
  /\ LET r == StartRound(players, playerOrder, Grid)
     IN /\ players' = r.ps
        /\ spatialBitfield' = r.g.bf
        /\ gridPoints' = r.g.pts
        /\ gridDirty' = r.g.dirty
  /\ pushed' = [id \in DOMAIN players |-> <<>>]
  /\ sentMark' = [id \in DOMAIN players |-> 0]
  /\ overrun' = FALSE
  /\ round' = round + 1
  /\ mirrorFresh' = \A id \in DOMAIN players :
                       id \in DOMAIN mirror => mirror[id].trailLen = 0
  /\ lastSer' = <<>>
  /\ lastApplied' = <<>>
  /\ UNCHANGED <<playerOrder, staticSent, netVars, timerVars, linkVars, walk, hostHist,
                 listVars, speedVars, peerVars>>

\* serializeGameState(...) on the host; the state travels over the reliable,
\* ordered channel and the mirror applies it: applyGameState
Serialize ==
  /\ LET r == SerializeGameState(players, staticSent, roundActive, countdown,
                                 roundStartTime, matchWinner)
         over == overrun \/ \E id \in DOMAIN players : Len(Pending(id)) > TRAIL_MAX
     IN /\ players' = r.ps
        /\ staticSent' = TRUE
        /\ overrun' = over
        /\ mirror' = ApplyGameState(mirror, r.state)
        /\ lastSer' = << [pending |-> [id \in DOMAIN players |-> Pending(id)],
                          tr |-> [id \in DOMAIN players |-> r.state.p[id].tr],
                          tl |-> [id \in DOMAIN players |-> r.ps[id].trailLen],
                          sc |-> [id \in DOMAIN players |-> r.ps[id].trailSentCount]] >>
        /\ lastApplied' = << [state |-> r.state,
                              snap |-> [id \in DOMAIN players |->
                                          TrailSamples(players[id])],
                              fresh |-> mirrorFresh,
                              over |-> over] >>
  /\ sentMark' = [id \in DOMAIN players |-> Len(pushed[id])]
  /\ UNCHANGED <<playerOrder, spatialBitfield, gridPoints, gridDirty, netVars>>
  /\ serialNo' = Min(serialNo + 1, 2)
  /\ UNCHANGED <<timerVars, hostHist, listVars, speedVars, observed, mirrors, walk,
                 pushed, round,
                 mirrorFresh>>

NextCodec ==
  \/ Push
  \/ RoundStart
  \/ Serialize

SpecCodec == InitCodec /\ [][NextCodec]_vars

\* ------------------------------------------------------------------------
\* The host and its environment: participants, the host's controls, timers
\* ------------------------------------------------------------------------
\* The participants that may connect, in the order in which they do
JOINERS == <<"a", "b">>

\* handleConnection: the next participant opens a channel to the host
Connect ==
  /\ arrivals < Len(JOINERS)
  /\ Commit([Host EXCEPT !.connections = @ \cup {JOINERS[arrivals + 1]},
                          !.mirrors = IF observed
                                        THEN [c \in (DOMAIN @) \cup
                                                    {JOINERS[arrivals + 1]} |->
                                                IF c \in DOMAIN @ THEN @[c]
                                                                  ELSE EmptyMap]
                                        ELSE @])
  /\ arrivals' = arrivals + 1
  /\ lastTick' = <<>>
  /\ UNCHANGED <<now, inputs, linkVars, codecHist, speedVars>>

\* A connected participant's join message arrives
Join ==
  \E id \in connections \ DOMAIN players :
    /\ Commit(JoinHandler(Host, id))
    /\ lastTick' = <<>>
    /\ UNCHANGED <<now, arrivals, inputs, linkVars, codecHist, speedVars>>

\* A participant's channel closes
Close ==
  \E id \in connections :
    /\ Commit(CloseHandler(Host, id))
    /\ lastTick' = <<>>
    /\ UNCHANGED <<now, arrivals, inputs, linkVars, codecHist, speedVars>>

\* A turn intent from the host's keyboard or from a participant's input
\* message, for a competitor in play.  (The turn intent of a competitor that is
\* not alive is read by nothing but the serializer before startRound resets it.)
Input ==
  \E id \in {HOST} \cup connections, turning \in {-1, 0, 1} :
    /\ roundActive
    /\ id \in DOMAIN players => players[id].alive
    /\ inputs < MaxInputs
    /\ Commit(ApplyPlayerUpdate(Host, id, turning))
    /\ inputs' = IF ApplyPlayerUpdate(Host, id, turning) = Host
                   THEN inputs
                   ELSE inputs + 1
    /\ lastTick' = <<>>
    /\ UNCHANGED <<now, arrivals, linkVars, codecHist, speedVars>>

\* The host's start button (shown in the lobby) or restart button (shown with
\* the winner overlay)
StartGame ==
  /\ ~gameStarted \/ matchWinner # NULL
  /\ starts < MaxStarts
  /\ Commit(StartGameHandler(Host))
  /\ lastTick' = <<>>
  /\ UNCHANGED <<now, arrivals, inputs, linkVars, codecHist, speedVars>>

\* A participant's restart message arrives
Restart ==
  \E id \in connections :
    /\ matchWinner # NULL => starts < MaxStarts
    /\ Commit(RestartHandler(Host))
    /\ lastTick' = <<>>
    /\ UNCHANGED <<now, arrivals, inputs, linkVars, codecHist, speedVars>>

\* A countdown interval fires
CountdownTick ==
  /\ countdownTimers > 0
  /\ Commit(CountdownHandler(Host, now))
  /\ lastTick' = <<>>
  /\ UNCHANGED <<now, arrivals, inputs, linkVars, codecHist, speedVars>>

\* An auto-restart timeout fires
AutoRestart ==
  /\ restartTimeouts > 0
  /\ Commit(AutoRestartHandler(Host))
  /\ lastTick' = <<>>
  /\ UNCHANGED <<now, arrivals, inputs, linkVars, codecHist, speedVars>>

\* The physics interval fires, one period after the previous reading of the clock
PhysicsTick ==
  /\ physicsInterval
  /\ roundActive => now - roundStartTime < MaxTicks
  /\ \E r \in {PhysicsTickHandler(Host, now + 1)} :
       /\ Commit(r.h)
       /\ now' = IF roundActive THEN now + 1 ELSE now
       /\ lastTick' = << [active |-> r.active, before |-> r.before,
                          wallDead |-> r.wallDead, examined |-> r.examined,
                          hits |-> r.hits, checked |-> r.checked,
                          listDead |-> r.listDead,
                          aliveCount |-> r.aliveCount, ended |-> r.ended] >>
  /\ UNCHANGED <<arrivals, inputs, linkVars, codecHist, speedVars>>

NextHost ==
  \/ Connect
  \/ Join
  \/ Close
  \/ Input
  \/ StartGame
  \/ Restart
  \/ CountdownTick
  \/ AutoRestart
  \/ PhysicsTick

SpecHost == Init /\ [][NextHost]_vars

\* The host while no turn intent arrives (every competitor goes straight), with
\* timers that fire: a pending timeout and an active interval are eventually
\* served
NextUnsteered ==
  \/ Connect
  \/ Join
  \/ Close
  \/ StartGame
  \/ Restart
  \/ CountdownTick
  \/ AutoRestart
  \/ PhysicsTick

SpecUnsteeredFair ==
  /\ Init
  /\ [][NextUnsteered]_vars
  /\ WF_vars(CountdownTick)
  /\ WF_vars(AutoRestart)
  /\ WF_vars(PhysicsTick)

\* ------------------------------------------------------------------------
\* Properties of the trail store and the state codec (SpecCodec)
\* ------------------------------------------------------------------------
\* A sample as the mirror holds it: encoded to one decimal, then decoded
OneDecimal(pt) == <<DecodePos(EncodePos(pt[1])), DecodePos(EncodePos(pt[2]))>>

\* The mirror holds the host's trails as of the state it has just applied:
\* the sample count and the logical samples
MirrorHoldsTrail(rec) ==
  \A id \in DOMAIN rec.state.p :
    /\ id \in DOMAIN mirror
    /\ mirror[id].trailLen = rec.state.p[id].tl
    /\ TrailSamples(mirror[id]) =
         [i \in 1 .. Len(rec.snap[id]) |-> OneDecimal(rec.snap[id][i])]

\* ... and the same ring offset
MirrorHoldsStart(rec) ==
  \A id \in DOMAIN rec.state.p :
    id \in DOMAIN mirror /\ mirror[id].trailStart = rec.state.p[id].ts

\* C1 as stated: within one round, a mirror whose trails were empty at round
\* start and that applies every serialized state has, after each applied state,
\* the host's trailLen, the host's trailStart and the host's logical samples at
\* one-decimal precision, for any number of ticks between two serializations.
C1_MirrorTracksHost ==
  (lastApplied # <<>> /\ lastApplied[1].fresh)
    => (MirrorHoldsTrail(lastApplied[1]) /\ MirrorHoldsStart(lastApplied[1]))

\* C1 amended: trailLen and the logical samples agree for any number of ticks
\* between two serializations; trailStart agrees provided at most TRAIL_MAX
\* ticks lay between any two consecutive serializations of the round.
C1_MirrorTracksHostWithinCapacity ==
  (lastApplied # <<>> /\ lastApplied[1].fresh)
    => /\ MirrorHoldsTrail(lastApplied[1])
       /\ ~lastApplied[1].over => MirrorHoldsStart(lastApplied[1])

\* A delta of at least two samples applied after the ring has wrapped
C1_Witness ==
  /\ lastApplied # <<>> /\ lastApplied[1].fresh /\ ~lastApplied[1].over
  /\ \E id \in DOMAIN lastApplied[1].state.p :
       /\ lastApplied[1].state.p[id].ts > 0
       /\ Len(lastApplied[1].state.p[id].tr) >= 4

\* C2: after N pushes since the last reset, trailLen = min(N, TRAIL_MAX) and
\* logical index i holds pushed sample number max(0, N - TRAIL_MAX) + i.
C2_TrailHoldsLastPushed ==
  \A id \in DOMAIN players :
    LET p == players[id]
        N == Len(pushed[id])
    IN /\ p.trailLen = Min(N, TRAIL_MAX)
       /\ \A i \in 0 .. (p.trailLen - 1) :
            <<p.trailX[TrailGetIndex(p, i)], p.trailY[TrailGetIndex(p, i)]>>
              = pushed[id][Max(0, N - TRAIL_MAX) + i + 1]

C2_Witness == \E id \in DOMAIN players : Len(pushed[id]) > TRAIL_MAX

\* C3: on the host every competitor satisfies
\* 0 <= trailSentCount <= trailLen <= TRAIL_MAX and 0 <= trailStart < TRAIL_MAX.
C3_TrailCountersInRange ==
  \A id \in DOMAIN players :
    /\ 0 <= players[id].trailSentCount
    /\ players[id].trailSentCount <= players[id].trailLen
    /\ players[id].trailLen <= TRAIL_MAX
    /\ 0 <= players[id].trailStart
    /\ players[id].trailStart < TRAIL_MAX

\* After a round start: a wrapped trail, part of it sent and part not
C3_Witness ==
  /\ round > 0
  /\ \E id \in DOMAIN players :
       /\ Len(pushed[id]) > TRAIL_MAX
       /\ 0 < players[id].trailSentCount
       /\ players[id].trailSentCount < players[id].trailLen

\* The wire form of a sequence of samples
Flattened(pts) ==
  [k \in 1 .. 2 * Len(pts) |-> EncodePos(pts[(k + 1) \div 2][IF k % 2 = 1 THEN 1 ELSE 2])]

\* C4: each serialization emits, for every competitor, exactly the samples
\* pushed since the previous serialization, once each and in push order,
\* whenever fewer than TRAIL_MAX were pushed in between (also across a wrap of
\* the ring), and leaves trailSentCount = trailLen.
C4_DeltaCarriesPending ==
  lastSer # <<>> =>
    \A id \in DOMAIN lastSer[1].tr :
      /\ Len(lastSer[1].pending[id]) < TRAIL_MAX
           => lastSer[1].tr[id] = Flattened(lastSer[1].pending[id])
      /\ lastSer[1].sc[id] = lastSer[1].tl[id]

\* A delta of at least two samples during which the ring wrapped
C4_Witness ==
  /\ lastSer # <<>>
  /\ \E id \in DOMAIN lastSer[1].tr :
       /\ Len(lastSer[1].pending[id]) >= 2
       /\ Len(lastSer[1].pending[id]) < TRAIL_MAX
       /\ Len(pushed[id]) > TRAIL_MAX
       /\ Len(pushed[id]) - Len(lastSer[1].pending[id]) < TRAIL_MAX

\* ------------------------------------------------------------------------
\* Properties of the round lifecycle (SpecHost, SpecUnsteeredFair)
\* ------------------------------------------------------------------------
\* The last step was a physics tick that found at most one competitor alive
TickEnded == lastTick # <<>> /\ lastTick[1].ended

WithLives == {id \in DOMAIN players : players[id].lives > 0}

\* C5: in the tick in which the number of alive competitors becomes <= 1,
\* roundActive is false and the physics timer is stopped before anything is
\* broadcast and before a restart is scheduled; stopping a stopped timer changes
\* nothing; and until the next round start the timer is not running, a tick
\* outside a round moves nobody, examines nobody and changes no lives.
C5_RoundEndStopsClock ==
  /\ TickEnded =>
       /\ ~roundActive /\ ~physicsInterval
       /\ Len(outbox) >= 2
       /\ \A k \in 1 .. Len(outbox) : ~outbox[k].ra /\ ~outbox[k].timer
  /\ StopPhysicsLoop(StopPhysicsLoop(Host)) = StopPhysicsLoop(Host)
  /\ ~physicsInterval => StopPhysicsLoop(Host) = Host
  /\ physicsInterval => roundActive
  /\ (lastTick # <<>> /\ ~lastTick[1].active) =>
       /\ players = lastTick[1].before
       /\ lastTick[1].examined = {}

\* A round end of a match that goes on: broadcasts, then the restart is scheduled
C5_Witness ==
  /\ TickEnded
  /\ \E k \in 1 .. Len(outbox) : outbox[k].type = "setTimeout"
  /\ \E k \in 1 .. Len(outbox) : outbox[k].type = "state"

\* C6: when a round ends and more than one competitor has lives, matchWinner
\* is null, roundActive is false and a restart is pending; the restart sets the
\* countdown to 3 and starts it, every countdown second decrements it by one,
\* and a new round eventually becomes active with no request from outside.
C6_AutoRestart ==
  /\ []((TickEnded /\ Cardinality(WithLives) > 1)
          => (matchWinner = NULL /\ ~roundActive /\ restartTimeouts > 0))
  /\ []((gameStarted /\ ~matchOver) => matchWinner = NULL)
  /\ [][AutoRestart => (countdown' = COUNTDOWN_FROM
                          /\ countdownTimers' = countdownTimers + 1)]_vars
  /\ [][CountdownTick => countdown' = countdown - 1]_vars
  /\ (TickEnded /\ Cardinality(WithLives) > 1) ~> roundActive

\* The second round of a match is active: it was started by the auto-restart
C6_Witness == roundActive /\ round >= 2 /\ starts = 1

\* C7: when a round ends and at most one competitor has lives, matchWinner is
\* the id of that competitor (null if there is none), a final state is
\* broadcast, no restart is scheduled, and no timer of the host is active until
\* a start-match request is accepted.
C7_MatchEnd ==
  /\ (TickEnded /\ Cardinality(WithLives) <= 1) =>
       /\ matchOver
       /\ \A id \in WithLives : matchWinner = id
       /\ WithLives = {} => matchWinner = NULL
       /\ \E k \in 1 .. Len(outbox) :
            /\ outbox[k].type = "state"
            /\ outbox[k].mw = matchWinner
            /\ ~outbox[k].ra
       /\ \A k \in 1 .. Len(outbox) : outbox[k].type # "setTimeout"
  /\ matchOver =>
       /\ ~roundActive /\ ~physicsInterval
       /\ countdownTimers = 0 /\ restartTimeouts = 0

\* A match just ended with a winner
C7_Witness == TickEnded /\ matchOver /\ matchWinner # NULL

\* C8: in every tick exactly the competitors that were alive before it and are
\* not alive after it lose one life (floored at 0), all other lives are
\* unchanged; lives stay within 0 .. MAX_LIVES and no competitor loses more
\* than one life per round.
C8_LivesLostOnDeath ==
  /\ lastTick # <<>> =>
       \A id \in DOMAIN players :
         players[id].lives =
           IF lastTick[1].before[id].alive /\ ~players[id].alive
             THEN Max(0, lastTick[1].before[id].lives - 1)
             ELSE lastTick[1].before[id].lives
  /\ \A id \in DOMAIN players :
       /\ players[id].lives \in 0 .. MAX_LIVES
       /\ id \in DOMAIN roundLives => players[id].lives >= roundLives[id] - 1

\* A tick in which one competitor lost its last life and another kept its lives
C8_Witness ==
  /\ lastTick # <<>>
  /\ \E id \in DOMAIN players :
       /\ lastTick[1].before[id].alive /\ ~players[id].alive
       /\ players[id].lives = 0
  /\ \E id \in DOMAIN players :
       /\ players[id].alive
       /\ players[id].lives = lastTick[1].before[id].lives

\* What a tick may change by moving a competitor
Motion(p) == <<p.x, p.y, p.angle, p.trailLen, p.trailStart, p.trailX, p.trailY>>

\* C9: a competitor whose position after movePlayer is outside the arena is
\* not alive when checkCollisions runs in that tick, is not among the
\* competitors it examines, and is not alive after the tick; and nothing but a
\* round start changes position, heading or trail of a competitor that is not
\* alive.
C9_WallDeath ==
  /\ []((lastTick # <<>> /\ lastTick[1].active) =>
          \A id \in DOMAIN lastTick[1].before :
            (lastTick[1].before[id].alive
               /\ OutOfArena(lastTick[1].checked[id].x, lastTick[1].checked[id].y))
              => /\ ~lastTick[1].checked[id].alive
                 /\ id \notin lastTick[1].examined
                 /\ ~players[id].alive)
  /\ [][\A id \in (DOMAIN players) \cap (DOMAIN players') :
          (~players[id].alive /\ round' = round)
            => Motion(players'[id]) = Motion(players[id])]_vars

\* A tick in which one competitor left the arena and another was examined
C9_Witness ==
  /\ lastTick # <<>>
  /\ lastTick[1].wallDead # {}
  /\ lastTick[1].examined # {}

\* The sample of competitor p at logical position i
TrailSample(p, i) == <<p.trailX[TrailGetIndex(p, i)], p.trailY[TrailGetIndex(p, i)]>>

\* C10 as stated: a living competitor is never marked dead because of one of
\* its own samples within the last COLLISION_SKIP_OWN logical positions of its
\* trail, and an own sample older than that window at squared distance below
\* COLLISION_RADIUS_SQ from its position does mark it dead.
C10_OwnTrailGrace ==
  (lastTick # <<>> /\ lastTick[1].active) =>
    \A id \in lastTick[1].examined :
      LET p == lastTick[1].checked[id]
          hit == lastTick[1].hits[id]
      IN /\ hit # <<>> =>
              ~(/\ hit[1].owner = id
                /\ hit[1].trailPos >= p.trailLen - COLLISION_SKIP_OWN
                /\ hit[1].trailPos < p.trailLen
                /\ TrailSample(p, hit[1].trailPos) = <<hit[1].x, hit[1].y>>)
         /\ (\E i \in 0 .. (p.trailLen - COLLISION_SKIP_OWN - 1) :
               LET dx == p.x - TrailSample(p, i)[1]
                   dy == p.y - TrailSample(p, i)[2]
               IN dx * dx + dy * dy < COLLISION_RADIUS_SQ)
              => ~players[id].alive

\* ------------------------------------------------------------------------
\* Properties of collision detection (SpecHost)
\* ------------------------------------------------------------------------
\* The pool entry e records logical position e.trailPos of competitor o's trail
HoldsSampleOf(e, o) ==
  /\ e.trailPos < o.trailLen
  /\ TrailSample(o, e.trailPos) = <<e.x, e.y>>

\* C11 as stated: a living competitor is never marked dead by a sample of
\* another competitor that is among the last 2 samples of that competitor's
\* trail, for every trail length from 1 to TRAIL_MAX.
C11_OtherTrailGrace ==
  (lastTick # <<>> /\ lastTick[1].active) =>
    \A id \in lastTick[1].examined :
      LET hit == lastTick[1].hits[id]
      IN hit # <<>> =>
           ~(/\ hit[1].owner # id
             /\ hit[1].owner \in DOMAIN lastTick[1].checked
             /\ HoldsSampleOf(hit[1], lastTick[1].checked[hit[1].owner])
             /\ hit[1].trailPos >= lastTick[1].checked[hit[1].owner].trailLen - 2)

\* C12 as stated: a living competitor is never marked dead by a sample that
\* belongs to a competitor who is not alive when checkCollisions runs.
C12_DeadTrailHarmless ==
  (lastTick # <<>> /\ lastTick[1].active) =>
    \A id \in lastTick[1].examined :
      LET hit == lastTick[1].hits[id]
      IN hit # <<>> =>
           ~(/\ hit[1].owner # id
             /\ hit[1].owner \in DOMAIN lastTick[1].checked
             /\ HoldsSampleOf(hit[1], lastTick[1].checked[hit[1].owner])
             /\ ~lastTick[1].checked[hit[1].owner].alive)

\* C13 as stated: run on the same roster and the same moves, the list-per-cell
\* checkCollisions and the bitfield-and-pool checkCollisions mark the same
\* competitors not alive in the same tick (so neither reports a death before
\* the tick in which the other does).
C13_VariantsAgree ==
  (lastTick # <<>> /\ lastTick[1].active) =>
    lastTick[1].listDead =
      {id \in lastTick[1].examined : lastTick[1].hits[id] # <<>>}

\* ------------------------------------------------------------------------
\* The speed curve on its own: getGameSpeed called with a start time that is
\* unset or was taken from the clock (network.js:379), at any later reading of
\* the clock. The clock counts in the unit SPEED_INTERVAL is given in.
\* ------------------------------------------------------------------------
InitSpeed ==
  /\ InitGame /\ InitLink /\ InitList /\ InitHist
  /\ observed = FALSE
  /\ roundActive = FALSE
  /\ countdown = 0
  /\ roundStartTime \in {NO_TIME} \cup (1 .. MaxEpoch)
  /\ matchWinner = NULL
  /\ gameStarted = FALSE
  /\ tickCounter = 0
  /\ physicsInterval = FALSE
  /\ countdownTimers = 0
  /\ restartTimeouts = 0
  /\ connections = {}
  /\ now = Max(roundStartTime, 1)
  /\ outbox = <<>>

\* Date.now() moves on
Elapse ==
  /\ \E d \in 1 .. SPEED_INTERVAL :
       /\ now + d <= MaxClock
       /\ now' = now + d
  /\ UNCHANGED <<gameVars, netVars, physicsInterval, countdownTimers, restartTimeouts,
                 connections, outbox, linkVars, codecHist, hostHist, listVars,
                 speedVars, peerVars, round>>

\* getGameSpeed(roundStartTime)
ReadSpeed ==
  /\ lastSpeed' = << [rst |-> roundStartTime, at |-> now,
                      speed |-> GetGameSpeed(roundStartTime, now)] >>
  /\ UNCHANGED <<gameVars, netVars, timerVars, linkVars, codecHist, hostHist, listVars,
                 peerVars, round>>

NextSpeed ==
  \/ Elapse
  \/ ReadSpeed

SpecSpeed == InitSpeed /\ [][NextSpeed]_vars

\* The number of boosts from which the curve is clamped
BoostsToMax == (MAX_SPEED - BASE_SPEED + SPEED_INCREMENT - 1) \div SPEED_INCREMENT

SpeedAsSpecified(r) ==
  LET elapsed == r.at - r.rst
  IN /\ r.rst = NO_TIME => r.speed = BASE_SPEED
     /\ r.rst # NO_TIME =>
          /\ r.speed = Min(BASE_SPEED + (elapsed \div SPEED_INTERVAL) * SPEED_INCREMENT,
                           MAX_SPEED)
          /\ elapsed = 0 => r.speed = BASE_SPEED
          /\ elapsed = SPEED_INTERVAL => r.speed = BASE_SPEED + SPEED_INCREMENT
          /\ elapsed >= BoostsToMax * SPEED_INTERVAL => r.speed = MAX_SPEED
     /\ BASE_SPEED <= r.speed
     /\ r.speed <= MAX_SPEED

\* C14: getGameSpeed returns min(BASE_SPEED + floor(elapsed / SPEED_INTERVAL) *
\* SPEED_INCREMENT, MAX_SPEED): BASE_SPEED at elapsed 0 and when the start time
\* is unset, BASE_SPEED + SPEED_INCREMENT after one interval, MAX_SPEED from
\* BoostsToMax intervals on; the result lies within [BASE_SPEED, MAX_SPEED] and
\* a later call with the same start time never returns less.
C14_SpeedCurve ==
  /\ [](lastSpeed # <<>> => SpeedAsSpecified(lastSpeed[1]))
  /\ [][(/\ lastSpeed # <<>>
         /\ lastSpeed' # <<>>
         /\ lastSpeed'[1].rst = lastSpeed[1].rst
         /\ lastSpeed'[1].at >= lastSpeed[1].at)
          => lastSpeed'[1].speed >= lastSpeed[1].speed]_vars

\* a call so late that the unclamped sum exceeds MAX_SPEED
C14_Witness ==
  /\ lastSpeed # <<>>
  /\ lastSpeed[1].rst # NO_TIME
  /\ lastSpeed[1].at - lastSpeed[1].rst > BoostsToMax * SPEED_INTERVAL
  /\ lastSpeed[1].speed = MAX_SPEED
  /\ BASE_SPEED + (BoostsToMax + 1) * SPEED_INCREMENT > MAX_SPEED
  /\ lastSpeed[1].at - lastSpeed[1].rst >= (BoostsToMax + 1) * SPEED_INTERVAL

\* Properties of joining (SpecHost)
\* id joined since the last startRound and has not been in play
LateJoiner(id) ==
  /\ gameStarted
  /\ id \in DOMAIN players
  /\ id \notin DOMAIN roundLives
  /\ ~players[id].alive

\* C15: a competitor that joins after the match has started is created not
\* alive; until the next round start it stays not alive, is not moved and
\* loses no life; at the next round start it is alive if it has lives.
C15_LateJoiner ==
  [][/\ \A id \in DOMAIN players' \ DOMAIN players :
          gameStarted => ~players'[id].alive /\ LateJoiner(id)'
     /\ \A id \in DOMAIN players \cap DOMAIN players' :
          LateJoiner(id) =>
            IF round' = round
              THEN /\ LateJoiner(id)'
                   /\ Motion(players'[id]) = Motion(players[id])
                   /\ players'[id].lives = players[id].lives
              ELSE /\ round' = round + 1
                   /\ players'[id].alive = (players'[id].lives > 0)
                   /\ players'[id].lives >= players[id].lives]_vars

\* A tick of a round in which somebody died while a late joiner was waiting
C15_Witness ==
  /\ lastTick # <<>>
  /\ lastTick[1].active
  /\ \E id \in DOMAIN players : lastTick[1].before[id].alive /\ ~players[id].alive
  /\ \E id \in DOMAIN players : LateJoiner(id) /\ players[id].lives > 0

\* Properties of starting a match (SpecHost)
\* The positions in the outbox of the messages of one type
SentAt(type) == {i \in 1 .. Len(outbox) : outbox[i].type = type}

\* C16: a start-match request accepted by the host (at least 2 competitors
\* present) sets every competitor's lives to MAX_LIVES and score to 0,
\* countdown to 3, roundActive to false and matchWinner to null, and sends
\* gameStart to every open channel before the first state that carries the
\* countdown is broadcast.
C16_StartMatch ==
  [][starts' = starts + 1 =>
       /\ Cardinality(DOMAIN players) >= 2
       /\ DOMAIN players' = DOMAIN players
       /\ \A id \in DOMAIN players' :
            /\ players'[id].lives = MAX_LIVES
            /\ players'[id].score = 0
       /\ countdown' = 3
       /\ ~roundActive'
       /\ matchWinner' = NULL
       /\ gameStarted'
       /\ \E i \in SentAt("gameStart")' :
            /\ outbox'[i].to = connections
            /\ SentAt("gameStart")' = {i}
            /\ SentAt("state")' # {}
            /\ \A j \in SentAt("state")' :
                 /\ i < j
                 /\ outbox'[j].cd = 3
                 /\ ~outbox'[j].ra
                 /\ outbox'[j].to = connections]_vars

\* A match started again after a match that somebody won: lives and scores had
\* changed, two channels are open
C16_Witness ==
  /\ starts = 2
  /\ SentAt("gameStart") # {}
  /\ Cardinality(connections) = 2
  /\ countdown = 3
  /\ \E id \in DOMAIN roundLives : roundLives[id] < MAX_LIVES

\* ------------------------------------------------------------------------
\* The host with start-match requests at any time: Network.startGame checks the
\* number of competitors and nothing else, whatever the caller's screen shows
\* ------------------------------------------------------------------------
StartGameAnyTime ==
  /\ starts < MaxStarts
  /\ Commit(StartGameHandler(Host))
  /\ lastTick' = <<>>
  /\ UNCHANGED <<now, arrivals, inputs, linkVars, codecHist, speedVars>>

NextOpen ==
  \/ Connect
  \/ Join
  \/ Close
  \/ StartGameAnyTime
  \/ Restart
  \/ CountdownTick
  \/ AutoRestart
  \/ PhysicsTick

SpecOpen == Init /\ [][NextOpen]_vars

\* C17 as stated: under any interleaving of start-match requests, restart
\* requests, joins, leaves and timer firings the countdown is an integer in
\* 0 .. 3, it is 0 whenever a round is active, a countdown callback decrements
\* it by exactly 1, and a round starts only from a countdown that reached 0
\* while no round was active.
C17_Countdown ==
  /\ [](countdown \in 0 .. 3 /\ (roundActive => countdown = 0))
  /\ [][/\ (countdown' # countdown /\ starts' = starts /\ restartTimeouts' = restartTimeouts)
            => countdown' = countdown - 1
        /\ round' # round => (~roundActive /\ round' = round + 1 /\ countdown' = 0)]_vars

\* C18: a start-match request made while fewer than 2 competitors are present
\* is answered with an error notice on the host's screen and changes nothing
\* else: not gameStarted, roundActive, countdown, matchWinner, nor any
\* competitor, and no interval or timeout is created.
C18_StartRejected ==
  [][(Cardinality(DOMAIN players) < 2 /\ StartGameAnyTime) =>
       /\ UNCHANGED <<gameVars, netVars, physicsInterval, countdownTimers,
                      restartTimeouts, connections, listVars, starts, round,
                      matchOver>>
       /\ outbox' = << Sent(Host, "error", {HOST}) >>]_vars

\* A start-match request was rejected while a match was on: the other
\* competitors have left
C18_Witness ==
  /\ SentAt("error") # {}
  /\ Cardinality(DOMAIN players) < 2
  /\ gameStarted
  /\ starts >= 1

\* Properties of restart requests (SpecHost)
\* C19 as stated: a restart message that arrives while no match end is pending
\* (lobby, countdown, active round, delay between rounds) leaves the host's
\* state unchanged and is answered with a notice to the participant that sent
\* it.
C19_RestartRejected ==
  [][(~matchOver /\ Restart) =>
       /\ UNCHANGED <<gameVars, netVars, physicsInterval, countdownTimers,
                      restartTimeouts, connections, starts, round>>
       /\ \E i \in 1 .. Len(outbox') : outbox'[i].to \subseteq connections
                                        /\ outbox'[i].to # {}]_vars

\* C20 as stated: after a match end the host has no active round, no physics
\* interval and no countdown until a start-match or restart request arrives,
\* and a restart message from a participant then starts a new match (lives
\* reset to MAX_LIVES, countdown 3), whether the match ended with one
\* competitor holding lives or with none.
C20_RestartAfterMatchEnd ==
  /\ [](matchOver => /\ ~roundActive
                     /\ ~physicsInterval
                     /\ countdownTimers = 0
                     /\ restartTimeouts = 0)
  /\ [][(matchOver /\ Cardinality(DOMAIN players) >= 2 /\ Restart) =>
          /\ starts' = starts + 1
          /\ countdown' = 3
          /\ countdownTimers' = 1
          /\ \A id \in DOMAIN players' : players'[id].lives = MAX_LIVES]_vars

\* ------------------------------------------------------------------------
\* The host together with the pages of its participants: every message the
\* host sends is applied by its recipients on arrival (reliable, ordered
\* channels); no turn intents
\* ------------------------------------------------------------------------
InitObserved == InitGame /\ InitNet /\ InitLink /\ InitList /\ InitHist /\ observed = TRUE

NextLink ==
  \/ Connect
  \/ Join
  \/ Close
  \/ StartGame
  \/ Restart
  \/ CountdownTick
  \/ AutoRestart
  \/ PhysicsTick

SpecLink == InitObserved /\ [][NextLink]_vars

\* Properties of the identity fields (SpecHost)
\* The positions in the outbox of the messages that carry a serialized state
StatesSent == SentAt("state") \cup SentAt("init")

\* C21: between two consecutive resetStaticSent events exactly the first state
\* serialized carries the identity fields, for every competitor, and every
\* later one carries them for none.
C21_IdentityOnce ==
  /\ staticSent = (serialNo > 0)
  /\ \A i \in StatesSent :
       /\ outbox[i].nth >= 1
       /\ outbox[i].ids = IF outbox[i].nth = 1 THEN outbox[i].roster ELSE {}

\* A periodic broadcast, the second state since the last reset, for a roster of
\* two or more
C21_Witness ==
  \E i \in StatesSent :
    /\ outbox[i].nth = 2
    /\ outbox[i].ids = {}
    /\ Cardinality(outbox[i].roster) >= 2
    /\ outbox[i].ra

\* C22 as stated: the first broadcastState after the host processed a join
\* carries the identity fields of every competitor.
C22_IdentityAfterJoin ==
  \A i \in SentAt("state") :
    outbox[i].afterJoin # {} => outbox[i].ids = outbox[i].roster

\* Properties of the participants' mirrors (SpecLink)
\* Mirror m holds, for every competitor of the roster ps, as many samples as
\* the host and the host's samples at one-decimal precision
MirrorMatches(m, ps) ==
  \A c \in DOMAIN ps :
    /\ c \in DOMAIN m
    /\ m[c].trailLen = ps[c].trailLen
    /\ \A i \in 1 .. ps[c].trailLen :
         TrailSamples(m[c])[i] = OneDecimal(TrailSamples(ps[c])[i])

\* C23 as stated: after a participant that joined during an active round has
\* applied its init message and the state message that follows it, its mirror
\* holds for every competitor the host's sample count and samples, and its
\* trailSentCount does not exceed its trailLen.
C23_InitIsSnapshot ==
  \A i \in SentAt("init") :
    outbox[i].ra =>
      \A id \in outbox[i].to :
        /\ id \in DOMAIN mirrors
        /\ MirrorMatches(mirrors[id], players)
        /\ \A c \in DOMAIN mirrors[id] :
             mirrors[id][c].trailSentCount <= mirrors[id][c].trailLen

\* C24 as stated: when a join was processed between two broadcasts of an
\* active round, then after the next periodic broadcast the mirror of every
\* participant that has been in the roster since the round started holds, for
\* each competitor, as many samples as the host's trail, none of the host's
\* samples missing.
C24_JoinKeepsMirrors ==
  \A i \in SentAt("state") :
    (outbox[i].ra /\ outbox[i].afterJoin # {}) =>
      \A id \in (outbox[i].to \cap DOMAIN roundLives) \ outbox[i].afterJoin :
        /\ id \in DOMAIN mirrors
        /\ \A c \in DOMAIN players :
             /\ c \in DOMAIN mirrors[id]
             /\ mirrors[id][c].trailLen = players[c].trailLen
             /\ \A k \in 1 .. players[c].trailLen :
                  \E j \in 1 .. mirrors[id][c].trailLen :
                    TrailSamples(mirrors[id][c])[j] =
                      OneDecimal(TrailSamples(players[c])[k])

\* The first state message of the running round was sent in the tick just made
FirstStateOfRound ==
  /\ lastTick # <<>>
  /\ lastTick[1].active
  /\ now - roundStartTime <= BROADCAST_EVERY
  /\ SentAt("state") # {}

\* C25 as stated: after a mirror that has been connected since before the
\* first round applied the first state message of a round, its trail of each
\* competitor holds only samples of that round, as many as the trail length
\* the host reported.
C25_RoundBoundary ==
  FirstStateOfRound =>
    \A id \in lobbyJoined \cap DOMAIN mirrors :
      \A c \in DOMAIN players :
        /\ c \in DOMAIN mirrors[id]
        /\ mirrors[id][c].trailLen = players[c].trailLen
        /\ \A j \in 1 .. mirrors[id][c].trailLen :
             \E k \in 1 .. players[c].trailLen :
               TrailSamples(mirrors[id][c])[j] = OneDecimal(TrailSamples(players[c])[k])

\* 0.05 units and 0.0005 rad in model units: half a step of the encoding
PosTolerance == PosDen \div (2 * POS_SCALE)
AngTolerance == AngDen \div (2 * ANGLE_SCALE)

Abs(v) == IF v < 0 THEN -v ELSE v

\* The values of a competitor that serializeGameState encodes
PositionsOf(p) ==
  {p.x, p.y} \cup {TrailSamples(p)[k][1] : k \in 1 .. p.trailLen}
             \cup {TrailSamples(p)[k][2] : k \in 1 .. p.trailLen}

\* C26 as stated: every position, trail coordinate and heading the simulation
\* produces on the host, negative ones included, decodes from its encoding to
\* a value at most 0.05 units (positions) or 0.0005 rad (headings) away.
C26_RoundingTolerance ==
  \A id \in DOMAIN players :
    /\ \A v \in PositionsOf(players[id]) :
         Abs(DecodePos(EncodePos(v)) - v) <= PosTolerance
    /\ Abs(DecodeAngle(EncodeAngle(players[id].angle)) - players[id].angle)
         <= AngTolerance

\* C27 as stated: when a participant's channel closes, the host removes that
\* competitor from the roster and from the connection set, and a message that
\* reflects the new roster is sent to every other open channel.
C27_CloseNotifies ==
  [][\A id \in connections :
       connections' = connections \ {id} =>
         /\ id \notin DOMAIN players'
         /\ \A c \in connections' :
              \E i \in 1 .. Len(outbox') :
                /\ c \in outbox'[i].to
                /\ outbox'[i].roster = DOMAIN players']_vars

\* C28: an input message changes the turn intent of the competitor it names
\* and nothing else on the host (no other field of that competitor, no other
\* competitor, no flag, timer or connection, and nothing is sent); an input
\* message that names an id with no entry in the roster changes nothing and
\* creates no entry.
C28_InputOnlyTurns ==
  /\ [](\A id \in connections \ DOMAIN players, turning \in {-1, 0, 1} :
          ApplyPlayerUpdate(Host, id, turning) = Host)
  /\ [][Input =>
          /\ DOMAIN players' = DOMAIN players
          /\ \E id \in DOMAIN players :
               /\ players'[id] = [players[id] EXCEPT !.turning = players'[id].turning]
               /\ \A c \in DOMAIN players \ {id} : players'[c] = players[c]
          /\ outbox' = <<>>
          /\ UNCHANGED <<playerOrder, spatialBitfield, gridPoints, gridDirty,
                         staticSent, netVars, physicsInterval, countdownTimers,
                         restartTimeouts, connections, now, listVars, round,
                         roundLives, starts, matchOver>>]_vars

\* An input message has just changed a turn intent while a connected
\* participant has no entry in the roster
C28_Witness ==
  /\ inputs >= 1
  /\ lastTick = <<>>
  /\ roundActive
  /\ outbox = <<>>
  /\ \E id \in DOMAIN players : players[id].turning # 0
  /\ connections \ DOMAIN players # {}

\* Competitor p stands at spawn slot i (0-based) with its heading
AtSlot(p, i) ==
  /\ p.x = spawnConfigs[i + 1].x
  /\ p.y = spawnConfigs[i + 1].y
  /\ p.angle = spawnConfigs[i + 1].angle

\* C29: at a round start every competitor with lives becomes alive at a spawn
\* slot with turn intent 0, every trail is reset (length 0, start 0, sent
\* count 0) and roundActive is true; a competitor with 0 lives is not alive and
\* takes no slot (it stays where it was); the living competitors take the
\* slots 0, 1, 2, ... in roster order, so that with no more competitors with
\* lives than slots no two share a slot.
C29_RoundStart ==
  [][round' = round + 1 =>
       /\ roundActive'
       /\ DOMAIN players' = DOMAIN players
       /\ \A k \in 1 .. Len(playerOrder') :
            LET id == playerOrder'[k]
                before == {j \in 1 .. (k - 1) : players'[playerOrder'[j]].lives > 0}
            IN /\ players'[id].trailLen = 0
               /\ players'[id].trailStart = 0
               /\ players'[id].trailSentCount = 0
               /\ players'[id].lives = players[id].lives
               /\ players'[id].lives > 0 =>
                    /\ players'[id].alive
                    /\ players'[id].turning = 0
                    /\ AtSlot(players'[id], Cardinality(before) % Len(spawnConfigs))
               /\ players'[id].lives <= 0 =>
                    /\ ~players'[id].alive
                    /\ players'[id].x = players[id].x
                    /\ players'[id].y = players[id].y
                    /\ players'[id].angle = players[id].angle
       /\ \A a, b \in DOMAIN players' :
            (a # b /\ players'[a].lives > 0 /\ players'[b].lives > 0) =>
              <<players'[a].x, players'[a].y>> # <<players'[b].x, players'[b].y>>]_vars

\* A round has just started with a competitor that has no lives left standing
\* before one that has, and with trails of the previous round emptied
C29_Witness ==
  /\ roundActive
  /\ round >= 2
  /\ now = roundStartTime
  /\ lastTick = <<>>
  /\ \A id \in DOMAIN players : players[id].trailLen = 0
  /\ \E j, k \in 1 .. Len(playerOrder) :
       /\ j < k
       /\ players[playerOrder[j]].lives = 0
       /\ ~players[playerOrder[j]].alive
       /\ players[playerOrder[k]].lives > 0
       /\ players[playerOrder[k]].alive

\* ------------------------------------------------------------------------
\* The host with competitors that steer: turn intents arrive between the
\* physics ticks of a round, so that competitors stay in the arena long enough
\* for their trails to wrap around
\* ------------------------------------------------------------------------
\* A turn intent of a competitor in play that differs from the one it has
Steer ==
  \E id \in DOMAIN players, turning \in {-1, 0, 1} :
    /\ roundActive
    /\ players[id].alive
    /\ players[id].turning # turning
    /\ inputs < MaxSteers
    /\ Commit(ApplyPlayerUpdate(Host, id, turning))
    /\ inputs' = inputs + 1
    /\ lastTick' = <<>>
    /\ UNCHANGED <<now, arrivals, linkVars, codecHist, speedVars>>

\* The physics interval fires, one period after the previous reading of the clock
SteeredTick ==
  /\ physicsInterval
  /\ roundActive => now - roundStartTime < MaxSteeredTicks
  /\ \E r \in {PhysicsTickHandler(Host, now + 1)} :
       /\ Commit(r.h)
       /\ now' = IF roundActive THEN now + 1 ELSE now
       /\ lastTick' = << [active |-> r.active, before |-> r.before,
                          wallDead |-> r.wallDead, examined |-> r.examined,
                          hits |-> r.hits, checked |-> r.checked,
                          listDead |-> r.listDead,
                          aliveCount |-> r.aliveCount, ended |-> r.ended] >>
  /\ UNCHANGED <<arrivals, inputs, linkVars, codecHist, speedVars>>

NextSteered ==
  \/ Connect
  \/ Join
  \/ StartGame
  \/ CountdownTick
  \/ AutoRestart
  \/ Steer
  \/ SteeredTick

SpecSteered == Init /\ [][NextSteered]_vars

\* The spatial index as the collision query of the last tick read it
\* (checkCollisions changes neither the index nor a trail after its rebuild),
\* and the roster it was queried for
Queried == lastTick # <<>> /\ lastTick[1].active

\* Sample i (logical position, 0-based) of competitor p
SampleAt(p, i) == <<p.trailX[TrailGetIndex(p, i)], p.trailY[TrailGetIndex(p, i)]>>

\* The index holds sample i of competitor p with its logical position
Indexed(p, i) ==
  /\ spatialBitfield # <<>>
  /\ spatialBitfield[GetCellIndex(SampleAt(p, i)[1], SampleAt(p, i)[2]) + 1] # 0
  /\ \E j \in 1 .. Len(gridPoints) :
       /\ gridPoints[j].owner = p.id
       /\ gridPoints[j].trailPos = i
       /\ <<gridPoints[j].x, gridPoints[j].y>> = SampleAt(p, i)

\* C30: at every collision query the spatial index holds every in-bounds
\* sample of the trail of every living competitor with its current logical
\* position, no entry of the index refers to a sample that its competitor's
\* trail no longer holds at that position (overwritten by wraparound), and the
\* dirty flag is clear (an index marked dirty was rebuilt before it was read).
C30_IndexComplete ==
  Queried =>
    /\ ~gridDirty
    /\ \A id \in DOMAIN lastTick[1].checked :
         LET p == lastTick[1].checked[id]
         IN p.alive =>
              \A i \in 0 .. (p.trailLen - 1) :
                GetCellIndex(SampleAt(p, i)[1], SampleAt(p, i)[2]) >= 0
                  => Indexed(p, i)
    /\ \A j \in 1 .. Len(gridPoints) :
         gridPoints[j].owner \in DOMAIN lastTick[1].checked =>
           LET p == lastTick[1].checked[gridPoints[j].owner]
           IN /\ gridPoints[j].trailPos < p.trailLen
              /\ SampleAt(p, gridPoints[j].trailPos)
                   = <<gridPoints[j].x, gridPoints[j].y>>

\* A collision query with two living competitors, one of whose trails has
\* wrapped around, so that the index was rebuilt for it
C30_Witness ==
  /\ Queried
  /\ Cardinality({id \in DOMAIN lastTick[1].checked :
                    lastTick[1].checked[id].alive}) >= 2
  /\ \E id \in DOMAIN lastTick[1].checked :
       /\ lastTick[1].checked[id].alive
       /\ lastTick[1].checked[id].trailStart # 0
  /\ Len(gridPoints) >= 2 * TRAIL_MAX

\* ------------------------------------------------------------------------
\* Properties of single operations
\* ------------------------------------------------------------------------
\* Samples handed to trailPush: inside the arena and outside it
PushSamples == {<<3, 1>>, <<CANVAS_W + 1, -1>>}

\* C31: trailPush below capacity increases trailLen by 1, writes the sample at
\* slot (trailStart + old trailLen) mod TRAIL_MAX and leaves trailStart and
\* trailSentCount unchanged; at full capacity it overwrites the slot at
\* trailStart, advances trailStart by 1 modulo TRAIL_MAX, leaves trailLen at
\* TRAIL_MAX, decrements trailSentCount by 1 floored at 0 and sets the dirty
\* flag of the grid (in both variants of the grid).  No other slot changes.
C31_TrailPushFrame ==
  \A id \in DOMAIN players, d \in BOOLEAN, pt \in PushSamples :
    LET p == players[id]
        r == TrailPush(p, [Grid EXCEPT !.dirty = d], pt[1], pt[2])
        lg == ListTrailPush(p, [cells |-> spatialGrid, dirty |-> d], pt[1], pt[2])
        slot == IF p.trailLen < TRAIL_MAX
                  THEN (p.trailStart + p.trailLen) % TRAIL_MAX
                  ELSE p.trailStart
    IN /\ r.p.trailX[slot] = pt[1]
       /\ r.p.trailY[slot] = pt[2]
       /\ \A s \in Slots \ {slot} : /\ r.p.trailX[s] = p.trailX[s]
                                     /\ r.p.trailY[s] = p.trailY[s]
       /\ IF p.trailLen < TRAIL_MAX
            THEN /\ r.p.trailLen = p.trailLen + 1
                 /\ r.p.trailStart = p.trailStart
                 /\ r.p.trailSentCount = p.trailSentCount
            ELSE /\ r.p.trailLen = TRAIL_MAX
                 /\ r.p.trailStart = (p.trailStart + 1) % TRAIL_MAX
                 /\ r.p.trailSentCount = Max(0, p.trailSentCount - 1)
                 /\ r.g.dirty
                 /\ lg.dirty

\* Pushes at full capacity have been made, with samples already sent and with
\* none sent, and a competitor's trail is not yet full
C31_Witness ==
  /\ \E id \in DOMAIN players :
       /\ players[id].trailLen = TRAIL_MAX
       /\ players[id].trailStart = 1
       /\ players[id].trailSentCount > 0
       /\ Len(pushed[id]) > TRAIL_MAX
  /\ \E id \in DOMAIN players :
       /\ players[id].trailLen < TRAIL_MAX

\* Sample i of competitor o lies at squared distance below COLLISION_RADIUS_SQ
\* from the position of competitor p
Near(p, o, i) ==
  LET dx == p.x - SampleAt(o, i)[1]
      dy == p.y - SampleAt(o, i)[2]
  IN dx * dx + dy * dy < COLLISION_RADIUS_SQ

\* The scan of all trails of the roster ps for competitor id: an own sample
\* older than the own grace window, or a sample of another living competitor
\* older than its last 2, lies near id's position
BruteForceHit(ps, id) ==
  \/ \E i \in 0 .. (ps[id].trailLen - COLLISION_SKIP_OWN - 1) : Near(ps[id], ps[id], i)
  \/ \E o \in DOMAIN ps \ {id} :
       /\ ps[o].alive
       /\ \E i \in 0 .. (ps[o].trailLen - 2 - 1) : Near(ps[id], ps[o], i)

\* C32 as stated: checkCollisions marks a living competitor dead if and only if
\* the scan of all trails finds an eligible sample near its position.
C32_MatchesBruteForce ==
  Queried =>
    \A id \in lastTick[1].examined :
      (lastTick[1].hits[id] # <<>>) <=> BruteForceHit(lastTick[1].checked, id)

\* The coordinate lies inside the grid
InGrid(x, y) ==
  /\ x >= 0 /\ x < GRID_COLS * GRID_CELL_SIZE
  /\ y >= 0 /\ y < GRID_ROWS * GRID_CELL_SIZE

\* C33 as stated: getCellIndex returns floor(y / cell) * cols + floor(x / cell)
\* for every coordinate inside the grid and -1 for every coordinate outside
\* it, negative coordinates included (checked on every position and trail
\* sample of the host), and no sample outside the grid is recorded in the index.
C33_CellIndex ==
  /\ \A id \in DOMAIN players :
       \A pt \in {<<players[id].x, players[id].y>>}
                \cup {SampleAt(players[id], i) : i \in 0 .. (players[id].trailLen - 1)} :
         GetCellIndex(pt[1], pt[2]) =
           IF InGrid(pt[1], pt[2])
             THEN (pt[2] \div GRID_CELL_SIZE) * GRID_COLS + (pt[1] \div GRID_CELL_SIZE)
             ELSE -1
  /\ \A j \in 1 .. Len(gridPoints) : InGrid(gridPoints[j].x, gridPoints[j].y)

\* The states handed to applyGameState: what the host serializes in its present
\* state, with and without identity fields, and a message without players map
StatesToApply ==
  {SerializeGameState(players, sent, roundActive, countdown, roundStartTime,
                      matchWinner).state : sent \in BOOLEAN}
    \cup {[ra |-> roundActive, cd |-> countdown]}

\* The mirrors they are applied to: the participant's mirror and a fresh one
MirrorsToApply == {mirror, EmptyMap}

\* What applyGameState does with an unknown id, with a reported trail length of
\* 0 and with a state without players map; competitors the state does not
\* mention are left alone
ToleratesCreateAndReset(m, state) ==
  LET r == ApplyGameState(m, state)
  IN IF "p" \notin DOMAIN state
       THEN r = m
       ELSE /\ DOMAIN r = (DOMAIN m) \cup (DOMAIN state.p)
            /\ \A id \in (DOMAIN m) \ (DOMAIN state.p) : r[id] = m[id]
            /\ \A id \in DOMAIN state.p :
                 /\ id \notin DOMAIN m =>
                      /\ r[id].id = id
                      /\ r[id].spawnIndex = IF state.p[id].static
                                              THEN state.p[id].si ELSE 0
                 /\ state.p[id].tl = 0 =>
                      /\ r[id].trailLen = 0
                      /\ r[id].trailStart = 0
                      /\ r[id].trailSentCount = 0

\* The trail of competitor id is the same in the mirrors m and r
SameTrail(m, r, id) ==
  /\ r[id].trailLen = m[id].trailLen
  /\ r[id].trailStart = m[id].trailStart
  /\ r[id].trailX = m[id].trailX
  /\ r[id].trailY = m[id].trailY

\* C34 as stated: an unknown id creates the competitor from the identity
\* fields (defaults when absent), a reported trail length of 0 resets the
\* trail, a state without players map changes nothing, and every entry without
\* a delta leaves trail length, start and samples of the mirror unchanged.
C34_AsStated ==
  \A m \in MirrorsToApply, state \in StatesToApply :
    /\ ToleratesCreateAndReset(m, state)
    /\ "p" \in DOMAIN state =>
         \A id \in (DOMAIN state.p) \cap (DOMAIN m) :
           Len(state.p[id].tr) = 0 => SameTrail(m, ApplyGameState(m, state), id)

\* C34, amended: as C34_AsStated, where an entry without a delta leaves trail
\* length, start and samples unchanged unless it reports the trail length 0
\* (which resets length and start).
C34_ApplyTolerates ==
  \A m \in MirrorsToApply, state \in StatesToApply :
    /\ ToleratesCreateAndReset(m, state)
    /\ "p" \in DOMAIN state =>
         \A id \in (DOMAIN state.p) \cap (DOMAIN m) :
           (Len(state.p[id].tr) = 0 /\ state.p[id].tl # 0)
             => SameTrail(m, ApplyGameState(m, state), id)

\* After states have been applied and a round has started, the host is about
\* to report the trail length 0, without a delta, for a competitor of which
\* the mirror holds samples
C34_Witness ==
  /\ round >= 1
  /\ mirror # EmptyMap
  /\ \E id \in DOMAIN players \cap DOMAIN mirror :
       /\ players[id].trailLen = 0
       /\ mirror[id].trailLen > 0

\* The orders in which the roster can be iterated
OrdersOf(order) ==
  {s \in [1 .. Len(order) -> {order[k] : k \in 1 .. Len(order)}] :
     \A i, j \in 1 .. Len(order) : i # j => s[i] # s[j]}

\* The competitors the list-per-cell checkCollisions marks not alive when its
\* loop examines the living competitors of roster ps in the given order
ListDeaths(ps, order) ==
  With(ListCheckFrom(ps, order, [cells |-> spatialGrid, dirty |-> listGridDirty],
                     {id \in DOMAIN ps : ps[id].alive}, 1),
       LAMBDA after : {id \in DOMAIN ps : ps[id].alive /\ ~after[id].alive})

\* C35 as stated: for the positions and trails of a collision query, every
\* order in which the living competitors are examined yields the same set of
\* deaths (here for the list-per-cell checkCollisions).
C35_OrderIndependent ==
  Queried =>
    \A s \in OrdersOf(playerOrder) :
      ListDeaths(lastTick[1].checked, s) = lastTick[1].listDead

\* C36 as stated: on the host at most one countdown interval is active at any
\* time and none while a round is active, under any interleaving of
\* start-match requests, restart requests, joins, leaves, the auto-restart
\* timeout and timer firings.  (The physics interval is a single handle that
\* startPhysicsLoop clears before it sets it: physicsInterval.)
C36_TimersSingle ==
  /\ countdownTimers <= 1
  /\ roundActive => countdownTimers = 0

\* C37 as stated: in every state of the host in which matchWinner is set,
\* roundActive is false, no physics interval, countdown interval or
\* auto-restart timeout is pending, matchWinner is the id of a competitor in
\* the roster, and that competitor is the only one with lives, also after
\* joins and leaves that follow the match end.
C37_MatchEndState ==
  matchWinner # NULL =>
    /\ ~roundActive
    /\ ~physicsInterval
    /\ countdownTimers = 0
    /\ restartTimeouts = 0
    /\ matchWinner \in DOMAIN players
    /\ \A id \in DOMAIN players : players[id].lives > 0 <=> id = matchWinner

\* ------------------------------------------------------------------------
\* Progress of a match (SpecUnsteeredFair)
\* ------------------------------------------------------------------------
\* The sum of f over the ids in S
RECURSIVE SumOver(_, _)
SumOver(f, S) ==
  IF S = {} THEN 0
  ELSE LET id == CHOOSE i \in S : TRUE
       IN f[id] + SumOver(f, S \ {id})

\* The lives of the roster, and the competitors that were alive when the
\* round started (startRound makes alive exactly those with lives)
Lives == [id \in DOMAIN players |-> players[id].lives]
StartAlive == {id \in DOMAIN roundLives : roundLives[id] > 0}

\* The most competitors a roster holds
MaxCompetitors == 1 + Len(JOINERS)

\* C38 as stated: every round that starts with at least 2 living competitors
\* and ends strictly decreases the sum of lives over the roster, all but at
\* most one of the competitors alive at round start having lost a life.
C38_AsStated ==
  (TickEnded /\ Cardinality(StartAlive) >= 2) =>
    /\ SumOver(Lives, DOMAIN players) < SumOver(roundLives, DOMAIN roundLives)
    /\ Cardinality({id \in StartAlive :
                      ~(id \in DOMAIN players /\ Lives[id] < roundLives[id])}) <= 1

\* C38, amended: when a round that started with at least 2 living competitors
\* ends, all but at most one of those that are still in the roster have lost
\* one life, and the sum of lives over the roster has strictly decreased if
\* nobody joined or left during the round; the rounds started are at most
\* (matches started) x (number of competitors) x MAX_LIVES; and with timers
\* that fire, a match that was started eventually reaches its end.
C38_MatchTerminates ==
  /\ []((TickEnded /\ Cardinality(StartAlive) >= 2) =>
          /\ Cardinality({id \in StartAlive \cap DOMAIN players :
                            Lives[id] # roundLives[id] - 1}) <= 1
          /\ DOMAIN players = DOMAIN roundLives =>
               SumOver(Lives, DOMAIN players) < SumOver(roundLives, DOMAIN roundLives))
  /\ [](round <= starts * MaxCompetitors * MAX_LIVES)
  /\ (gameStarted /\ ~matchOver) ~> matchOver

\* A match has ended after a round in which two competitors that were alive at
\* its start lost a life
C38_Witness ==
  /\ TickEnded
  /\ matchOver
  /\ round >= 2
  /\ DOMAIN players = DOMAIN roundLives
  /\ Cardinality({id \in StartAlive : Lives[id] = roundLives[id] - 1}) >= 2


\* ------------------------------------------------------------------------
\* The lobby: participants come and go while no match is started
\* ------------------------------------------------------------------------
\* The participants that may connect to the lobby, in the order in which they do
LOBBY_JOINERS == <<"a", "b", "c">>

\* handleConnection: the next participant opens a channel to the host
ConnectLobby ==
  /\ arrivals < Len(LOBBY_JOINERS)
  /\ Commit([Host EXCEPT !.connections = @ \cup {LOBBY_JOINERS[arrivals + 1]}])
  /\ arrivals' = arrivals + 1
  /\ lastTick' = <<>>
  /\ UNCHANGED <<now, inputs, linkVars, codecHist, speedVars>>

NextLobby ==
  \/ ConnectLobby
  \/ Join
  \/ Close

SpecLobby == Init /\ [][NextLobby]_vars

\* C39: for any sequence of joins and leaves, no two competitors in the host's
\* roster have the same spawnIndex (and so none share a color or an index tag)
C39_UniqueSpawnIndex ==
  \A i, j \in DOMAIN players :
    i # j => players[i].spawnIndex # players[j].spawnIndex

====
